---- MODULE Spec2Model ----
(***************************************************************************)
(* Model of the repair orchestration engine of the WPlace master server:   *)
(* the batch tracker and the recent-repair lockout (server/storage.py),    *)
(* the distribution planner and the session orchestrator                   *)
(* (server/session_orchestrator.py), and the favorite election of the      *)
(* connection registry (server/connection_manager.py, server/endpoints.py).*)
(*                                                                         *)
(* Each subsystem has its own specification over the shared variables:     *)
(*   SpecTracker  BatchTracker operations applied in any order             *)
(*   SpecLock     the recent-repair lockout under a clock                  *)
(*   SpecDist     compute_distribution on bounded inputs                   *)
(*   SpecFav      worker connect, disconnect, eviction and set-favorite    *)
(*                requests interleaved at their await points               *)
(*   SpecRound    one orchestrator iteration (session loop or one_batch):  *)
(*                planning, dispatch, paint results and the retry loop     *)
(*   SpecSession  start_session, stop_session, one_batch and the           *)
(*                orchestration loop tasks                                 *)
(*   SpecLoop     the loop tasks of one session under weak fairness        *)
(*   SpecPattern  select_pixels_by_pattern on every pattern name           *)
(*   SpecChurn    the iteration of SpecRound with workers that disconnect  *)
(*   SpecDup      the iteration of SpecRound with workers that answer a    *)
(*                paintBatch more than once                                *)
(*   SpecPreview  the telemetry and preview_data handlers of endpoints.py  *)
(*   SpecConn     /ws/slave connections, reconnections and terminations,   *)
(*                and guard uploads                                        *)
(*   SpecSizing   the charges and the round size of an iteration           *)
(*   SpecFilter   from the stored preview to the changes a round selects   *)
(*   SpecRetarget the worker a failed assignment is resent to              *)
(*   SpecHandshake the preview handshake of an iteration, under weak       *)
(*                fairness of its poll                                     *)
(*   SpecPause    pause_session beside the calls and tasks of SpecLoop     *)
(***************************************************************************)
EXTENDS Integers, Sequences, FiniteSets, TLC

VARIABLES
    batches,            \* BatchTracker.batches: request id -> bucket
    recently_repaired,  \* storage.recently_repaired: coord key -> expiry
    now,                \* the clock, datetime.utcnow().timestamp(), in seconds
    lockMarks,          \* history: coord key -> time and TTL of its last mark
    lockAged,           \* history: the keys aged over since their last mark
    lockQuery,          \* history: the is_locked_change call just made
    distIn,             \* compute_distribution's arguments
    distPlan,           \* compute_distribution's result
    distPc,             \* "in" before the call, "out" after it
    connected_slaves,   \* storage.connected_slaves: the ids, in dict order
    is_favorite,        \* SlaveInfo.is_favorite of each connected worker
    favReq,             \* the set_favorite_slave requests in flight
    favDisc,            \* the disconnect_slave calls in flight, per worker
    roundCfg,           \* the iteration's inputs: mode, guard_config, charges
                        \* and the favorite's preview changes
    rndPc,              \* where the iteration stands
    rndEnded,           \* why the iteration slept or ended
    rndQueue,           \* the <<worker, payload>> still to dispatch
    rndSent,            \* history: the paintBatch messages sent, in order
    rndInflight,        \* the paintBatch messages not yet answered
    rndFails,           \* the retry tick's snapshot of failed assignments
    rndIdx,             \* idx, the retry loop's candidate counter
    rndLocked,          \* history: the coords locked when the list was filtered
    rndAbandoned,       \* history: the keys the abandon branch ran for
    rndGone,            \* the workers that disconnected during the round
    rndTicked,          \* history: a retry tick ran since the last disconnect
    active_protect_loops,  \* session id -> its running flag
    loopTasks,          \* the orchestrate_loop tasks created by start_session
    sessSent,           \* history: the messages the session calls and loops sent
    sessLast,           \* history: the last session call and what it did
    patIn,              \* the arguments of select_pixels_by_pattern
    patOut,             \* what it returned
    patPc,              \* "in" before the call, "out" after it
    telemetry,          \* SlaveInfo.telemetry['preview_data'] of each worker
    last_preview_timestamp,  \* storage._last_preview_timestamp
    pvLast,             \* history: the last preview message handled
    slave_connections,  \* manager.slave_connections: id -> connection
    rcConns,            \* the /ws/slave connections made so far, in order
    last_guard_upload,  \* the name last_guard_upload in each module
    rcElect,            \* history: the automatic elections of a favorite
    callIn,             \* the inputs of the planning step under check
    callOut,            \* what the step computed from them
    callPc,             \* "in" before the step, "out" after it
    handshake,          \* the preview handshake of one iteration
    pauseLog            \* history: the pause_session calls made so far

trackerVars == <<batches>>

lockVars == <<recently_repaired, now, lockMarks, lockAged, lockQuery>>

distVars == <<distIn, distPlan, distPc>>

favVars == <<connected_slaves, is_favorite, favReq, favDisc>>

goneVars == <<rndGone, rndTicked>>

roundVars == <<roundCfg, rndPc, rndEnded, rndQueue, rndSent, rndInflight,
               rndFails, rndIdx, rndLocked, rndAbandoned, rndGone,
               rndTicked>>

vars == <<batches, recently_repaired, now, lockMarks, lockAged, lockQuery,
          distIn, distPlan, distPc,
          connected_slaves, is_favorite, favReq, favDisc,
          roundCfg, rndPc, rndEnded, rndQueue, rndSent, rndInflight,
          rndFails, rndIdx, rndLocked, rndAbandoned, rndGone, rndTicked,
          active_protect_loops, loopTasks, sessSent, sessLast,
          patIn, patOut, patPc,
          telemetry, last_preview_timestamp, pvLast,
          slave_connections, rcConns, last_guard_upload, rcElect,
          callIn, callOut, callPc, handshake, pauseLog>>

patVars == <<patIn, patOut, patPc>>

previewVars == <<telemetry, last_preview_timestamp, pvLast>>

connVars == <<slave_connections, rcConns, last_guard_upload, rcElect>>

callVars == <<callIn, callOut, callPc>>

\* The variables of the planning steps and of the preview handshake.
stepVars == <<callVars, handshake, pauseLog>>

\* The variables of the preview handlers and of the connection registry,
\* and those of the planning steps.
wsVars == <<previewVars, connVars, stepVars>>

sessVars == <<active_protect_loops, loopTasks, sessSent, sessLast>>

\* What the actions of each specification leave alone.
notTracker == <<wsVars, lockVars, distVars, favVars, roundVars, sessVars,
               patVars>>

notLock == <<wsVars, trackerVars, distVars, favVars, roundVars, sessVars,
            patVars>>

notDist == <<wsVars, trackerVars, lockVars, favVars, roundVars, sessVars,
            patVars>>

notFav == <<wsVars, trackerVars, lockVars, distVars, roundVars, sessVars,
           patVars>>

\* An iteration works on the tracker and on the lockout table.
notRound == <<wsVars, distVars, favVars, sessVars, patVars, now, lockMarks,
              lockAged, lockQuery>>

\* The session calls and loops work on the tracker too.
notSess == <<wsVars, lockVars, distVars, favVars, roundVars, patVars>>

notPat == <<wsVars, trackerVars, lockVars, distVars, favVars, roundVars,
           sessVars>>

(***************************************************************************)
(* Bounds of the model.                                                    *)
(***************************************************************************)
\* Cap on an assignment's attempts counter in SpecTracker.
MaxAttempts == 2

\* Cap on the number of assignments of the request in SpecTracker.
MaxAssignments == 2

\* storage.py:234  default of cleanup_abandoned_batches(max_retries=3)
\* session_orchestrator.py:380 reads guard_config['maxRetries']; the model
\* draws the configured value from 0..MaxRetriesCfg.
MaxRetriesCfg == 1

\* The clock runs from 1 to MaxTime.
MaxTime == 4

\* guard_config['recentLockSeconds'] is drawn from 0..MaxLockSeconds.
MaxLockSeconds == 2

\* A worker's remaining_charges is drawn from -1..MaxCredit.
MaxCredit == 3

\* compute_distribution's round_total is drawn from 0..MaxTarget.
MaxTarget == 5

\* session_orchestrator.py:300  TILE = 1000
TILE == 1000

(***************************************************************************)
(* Generic helpers.                                                        *)
(***************************************************************************)
Range(s) == {s[i] : i \in DOMAIN s}

Min2(a, b) == IF a <= b THEN a ELSE b

Max2(a, b) == IF a >= b THEN a ELSE b

RECURSIVE SumSeq(_)
SumSeq(s) == IF s = <<>> THEN 0 ELSE Head(s) + SumSeq(Tail(s))

(***************************************************************************)
(* Workers, pixels and paint payloads.                                     *)
(***************************************************************************)
Slaves == {"a", "b"}

\* Absolute pixel coordinates <<x, y>>; <<1000, 0>> lies in another tile.
Pixels == {<<1, 0>>, <<0, 1>>, <<1000, 0>>}

TileOf(p) == <<p[1] \div TILE, p[2] \div TILE>>

\* A paintBatch payload without its requestId: tile, coords and the
\* parallel colors list (batchSize is Len(coords)).
Payload(tile, coords, colors) ==
    [tileX |-> tile[1], tileY |-> tile[2], coords |-> coords, colors |-> colors]

(***************************************************************************)
(* BatchTracker (storage.py).  A bucket keeps its assignments as a Python  *)
(* dict: `order` is the insertion order of the keys, `assignments` the     *)
(* mapping, `pending` the stored counter.                                  *)
(***************************************************************************)
\* An empty dict.
EmptyFcn == [x \in {} |-> x]

EmptyBucket == [order |-> <<>>, assignments |-> EmptyFcn, pending |-> 0]

\* BatchTracker._key: "tileX,tileY:x0,y0" of the first coord, or
\* "tileX,tileY:empty".  The slave id is not part of the string.
BatchKey(tileX, tileY, coords) ==
    IF Len(coords) > 0 THEN <<tileX, tileY, coords[1]>>
    ELSE <<tileX, tileY, <<>>>>

PayloadKey(payload) == BatchKey(payload.tileX, payload.tileY, payload.coords)

HasBatch(b, r) == r \in DOMAIN b

\* The number of assignments of the bucket whose status is 'pending'.
CountPending(bucket) ==
    Cardinality({k \in DOMAIN bucket.assignments :
                    bucket.assignments[k].status = "pending"})

\* BatchTracker._recount
Recount(bucket) == [bucket EXCEPT !.pending = CountPending(bucket)]

PutBucket(b, r, bucket) ==
    [x \in DOMAIN b \cup {r} |-> IF x = r THEN bucket ELSE b[x]]

\* BatchTracker.create
TrackerCreate(b, r) == PutBucket(b, r, EmptyBucket)

\* BatchTracker.assign
TrackerAssign(b, r, sid, payload, attempt) ==
    LET old == IF HasBatch(b, r) THEN b[r] ELSE EmptyBucket
        k   == <<sid, PayloadKey(payload)>>
        a   == [payload |-> payload, attempts |-> attempt,
                status |-> "pending", last_assigned_to |-> sid]
        new == [old EXCEPT
                  !.order = IF k \in DOMAIN old.assignments THEN @
                            ELSE Append(@, k),
                  !.assignments = [x \in DOMAIN @ \cup {k} |->
                                     IF x = k THEN a ELSE @[x]]]
    IN  PutBucket(b, r, Recount(new))

\* Mutant: mark sets the status and leaves the pending counter as it was.
MarkWithoutRecount(b, r, sid, tileX, tileY, coords, ok) ==
    IF ~HasBatch(b, r) THEN b
    ELSE LET k == <<sid, BatchKey(tileX, tileY, coords)>>
         IN  IF k \in DOMAIN b[r].assignments
             THEN PutBucket(b, r, [b[r] EXCEPT !.assignments[k].status =
                                                 IF ok THEN "ok" ELSE "failed"])
             ELSE b

\* BatchTracker.mark
TrackerMark(b, r, sid, tileX, tileY, coords, ok) ==
    IF ~HasBatch(b, r) THEN b
    ELSE LET k == <<sid, BatchKey(tileX, tileY, coords)>>
             marked == IF k \in DOMAIN b[r].assignments
                       THEN [b[r] EXCEPT !.assignments[k].status =
                                            IF ok THEN "ok" ELSE "failed"]
                       ELSE b[r]
         IN  PutBucket(b, r, Recount(marked))

\* BatchTracker.failed_assignments: the keys, in dict order.
FailedAssignments(b, r) ==
    IF ~HasBatch(b, r) THEN <<>>
    ELSE LET IsFailed(k) == b[r].assignments[k].status = "failed"
         IN  SelectSeq(b[r].order, IsFailed)

\* BatchTracker.inc_attempts: the new tracker; no recount is made.
TrackerIncAttempts(b, r, k) ==
    IF ~HasBatch(b, r) THEN b
    ELSE IF k \notin DOMAIN b[r].assignments THEN b
    ELSE PutBucket(b, r,
           [b[r] EXCEPT !.assignments[k].attempts = @ + 1,
                        !.assignments[k].status = "pending"])

\* Mutant: inc_attempts reports no attempt, so every failure is resent.
IncAttemptsNone(b, r, k) == 0

\* The value inc_attempts returns.
IncAttemptsResult(b, r, k) ==
    IF ~HasBatch(b, r) THEN 0
    ELSE IF k \notin DOMAIN b[r].assignments THEN 0
    ELSE b[r].assignments[k].attempts + 1

\* BatchTracker.get_pending
GetPending(b, r) == IF HasBatch(b, r) THEN b[r].pending ELSE 0

\* The assignments cleanup_abandoned_batches removes.
Abandoned(bucket, max_retries) ==
    {k \in DOMAIN bucket.assignments :
        /\ bucket.assignments[k].attempts > max_retries
        /\ bucket.assignments[k].status = "failed"}

\* BatchTracker.cleanup_abandoned_batches
TrackerCleanup(b, r, max_retries) ==
    IF ~HasBatch(b, r) THEN b
    ELSE LET gone == Abandoned(b[r], max_retries)
             Kept(k) == k \notin gone
             new == [b[r] EXCEPT
                       !.order = SelectSeq(@, Kept),
                       !.assignments = [x \in DOMAIN @ \ gone |-> @[x]]]
         IN  PutBucket(b, r, Recount(new))

(***************************************************************************)
(* Recent-repair lockout (storage.py).  _mk_key formats the integer pair   *)
(* "x,y"; distinct integer pairs give distinct keys, so the key is the     *)
(* pair.                                                                   *)
(***************************************************************************)
MkKey(p) == <<p[1], p[2]>>

\* mark_recent_repairs(coords) at time t with recentLockSeconds = lock_secs
MarkRecentRepairs(rr, coords, t, lock_secs) ==
    LET keys == {MkKey(coords[i]) : i \in DOMAIN coords}
    IN  [k \in DOMAIN rr \cup keys |->
            IF k \in keys THEN t + lock_secs ELSE rr[k]]

\* Mutant: an entry expires one second late.
ExpiredStrict(exp, t) == exp < t

\* The entries age_recent_repairs and is_locked_change treat as expired.
Expired(exp, t) == exp <= t

\* age_recent_repairs() at time t
AgeRecentRepairs(rr, t) ==
    [k \in {x \in DOMAIN rr : ~Expired(rr[x], t)} |-> rr[k]]

\* is_locked_change(change) at time t: the value returned.  `not exp` is
\* also true of a stored expiry of 0.
IsLockedChange(rr, p, t) ==
    LET k == MkKey(p)
    IN  IF k \notin DOMAIN rr THEN FALSE
        ELSE IF rr[k] = 0 THEN FALSE
        ELSE ~Expired(rr[k], t)

\* is_locked_change(change) at time t: the table it leaves (lazy expiry).
AfterIsLocked(rr, p, t) ==
    LET k == MkKey(p)
    IN  IF k \in DOMAIN rr /\ rr[k] # 0 /\ Expired(rr[k], t)
        THEN [x \in DOMAIN rr \ {k} |-> rr[x]]
        ELSE rr

(***************************************************************************)
(* compute_distribution (session_orchestrator.py).  `ids` is the key order *)
(* of the charges dict, `ch` the dict.  A plan is a function on the ids.   *)
(***************************************************************************)
SumOver(f, S) ==
    LET RECURSIVE Acc(_)
        Acc(T) == IF T = {} THEN 0
                  ELSE LET x == CHOOSE x \in T : TRUE
                       IN  f[x] + Acc(T \ {x})
    IN  Acc(S)

ZeroPlan(ids) == [s \in Range(ids) |-> 0]

\* sorted(..., key=..., reverse=True): descending by key, equal keys in
\* their input order.
RECURSIVE SortDesc(_, _)
SortDesc(seq, key) ==
    IF seq = <<>> THEN <<>>
    ELSE LET i == CHOOSE i \in DOMAIN seq : \A j \in DOMAIN seq :
                      \/ key[seq[i]] > key[seq[j]]
                      \/ key[seq[i]] = key[seq[j]] /\ i <= j
             rest == [j \in 1..(Len(seq) - 1) |->
                         IF j < i THEN seq[j] ELSE seq[j + 1]]
         IN  <<seq[i]>> \o SortDesc(rest, key)

InputOrder(seq, key) == seq

\* ordered = sorted(valid.items(), key=lambda x: x[1], reverse=True)
GreedyOrder(seq, key) == SortDesc(seq, key)

\* The loop of the round_robin branch and of the final adjustment: one
\* unit per visit to the next worker of `order` that has headroom, until
\* `need` units are given or every worker of `order` is full.
RECURSIVE RoundRobinFill(_, _, _, _, _)
RoundRobinFill(plan, order, valid, need, idx) ==
    IF need <= 0 \/ order = <<>> THEN plan
    ELSE LET sid   == order[(idx % Len(order)) + 1]
             room  == plan[sid] < valid[sid]
             plan2 == IF room THEN [plan EXCEPT ![sid] = @ + 1] ELSE plan
             need2 == IF room THEN need - 1 ELSE need
         IN  IF \A s \in Range(order) : plan2[s] >= valid[s] THEN plan2
             ELSE RoundRobinFill(plan2, order, valid, need2, idx + 1)

\* Mutant: the greedy branch gives a worker its whole credit.
TakeAll(ch, remaining) == ch

\* take = min(ch, remaining)
Take(ch, remaining) == Min2(ch, remaining)

\* The greedy branch: workers by descending credit, each takes what is
\* left of the target up to its credit.
RECURSIVE GreedyLoop(_, _, _, _)
GreedyLoop(plan, ordered, valid, remaining) ==
    IF ordered = <<>> \/ remaining <= 0 THEN plan
    ELSE LET sid  == Head(ordered)
             take == Take(valid[sid], remaining)
         IN  GreedyLoop([plan EXCEPT ![sid] = take], Tail(ordered), valid,
                        remaining - take)

\* The balanced branch.  ideal = (ch / total_ch) * target; its integer
\* part is (ch * target) div total_ch.  The leftover goes, one unit each,
\* to the workers in descending order of the fractional part.
RECURSIVE BalancedResidual(_, _, _, _)
BalancedResidual(plan, fractional, valid, need) ==
    IF fractional = <<>> \/ need <= 0 THEN plan
    ELSE LET sid == Head(fractional)
         IN  IF plan[sid] < valid[sid]
             THEN BalancedResidual([plan EXCEPT ![sid] = @ + 1],
                                   Tail(fractional), valid, need - 1)
             ELSE BalancedResidual(plan, Tail(fractional), valid, need)

\* The fractional part ideal - base is computed in IEEE-754 doubles, so two
\* workers whose exact fractional parts are equal may still compare
\* unequal.  These are the <<ch, total_ch, target>>, for credits up to 5,
\* targets up to 8 and up to three workers, whose computed fractional part
\* exceeds that of another credit with the same exact fractional part
\* (e.g. 1/9*3 gives 0.3333333333333333 and 4/9*3 - 1 gives
\* 0.33333333333333326).  In that range int(ideal) is always the exact floor.
FloatFracHigher ==
    { <<1, 6, 2>>, <<1, 6, 4>>, <<1, 9, 3>>, <<1, 9, 6>>, <<1, 12, 4>>,
      <<1, 12, 8>>, <<1, 15, 5>>, <<2, 15, 5>>, <<5, 6, 2>>, <<5, 6, 4>>,
      <<5, 9, 3>>, <<5, 9, 6>>, <<5, 12, 4>>, <<5, 12, 8>> }

\* The order of the computed fractional parts: by the exact remainder,
\* then by the rounding of the double.
FracKey(ch, total_ch, target) ==
    2 * ((ch * target) % total_ch)
      + (IF <<ch, total_ch, target>> \in FloatFracHigher THEN 1 ELSE 0)

BalancedPlan(validIds, valid, target) ==
    LET total_ch == IF SumOver(valid, Range(validIds)) = 0 THEN 1
                    ELSE SumOver(valid, Range(validIds))
        base == [s \in Range(validIds) |->
                    Min2((valid[s] * target) \div total_ch, valid[s])]
        rem  == [s \in Range(validIds) |-> FracKey(valid[s], total_ch, target)]
        assigned == SumOver(base, Range(validIds))
        shared == IF assigned < target
                  THEN BalancedResidual(base, SortDesc(validIds, rem), valid,
                                        target - assigned)
                  ELSE base
    IN  [s \in Range(validIds) |-> Min2(shared[s], valid[s])]

compute_distribution(strategy, ids, ch, round_total) ==
    LET IsValid(s) == ch[s] > 0
        validIds == SelectSeq(ids, IsValid)
        valid == [s \in Range(validIds) |-> Max2(0, ch[s])]
        cap_total == SumOver(valid, Range(validIds))
        target == Min2(round_total, cap_total)
        zero == [s \in Range(validIds) |-> 0]
        plan == CASE strategy = "round_robin" ->
                       RoundRobinFill(zero, validIds, valid, target, 0)
                  [] strategy = "balanced" ->
                       BalancedPlan(validIds, valid, target)
                  [] OTHER ->
                       GreedyLoop(zero, GreedyOrder(validIds, valid), valid, target)
        diff == target - SumOver(plan, Range(validIds))
        HasRoom(s) == plan[s] < valid[s]
        adjusted == IF diff > 0
                    THEN RoundRobinFill(plan, SelectSeq(validIds, HasRoom),
                                        valid, diff, 0)
                    ELSE plan
    IN  IF validIds = <<>> \/ round_total <= 0 THEN ZeroPlan(ids)
        ELSE IF target <= 0 THEN ZeroPlan(ids)
        ELSE [s \in Range(ids) |->
                IF s \in Range(validIds) THEN adjusted[s] ELSE 0]

(***************************************************************************)
(* The values of each subsystem's variables while another specification   *)
(* runs.                                                                   *)
(***************************************************************************)
NoQuery == [coord |-> <<>>, at |-> 0, result |-> FALSE]

LockIdle ==
    /\ recently_repaired = EmptyFcn
    /\ now = 1
    /\ lockMarks = EmptyFcn
    /\ lockAged = {}
    /\ lockQuery = NoQuery

TrackerIdle == batches = EmptyFcn

DistIds == <<"a", "b", "c">>

Strategies == {"greedy", "round_robin", "balanced", "unknown"}

NoPlan == [s \in {} |-> 0]

DistIdle ==
    /\ distIn = [strategy |-> "greedy", charges |-> ZeroPlan(DistIds),
                 round_total |-> 0]
    /\ distPlan = NoPlan
    /\ distPc = "idle"

FavSlaves == {"a", "b", "c"}

\* Two set_favorite_slave requests may be in flight at once.
FavRequests == {1, 2}

IdleReq == [pc |-> "idle", target |-> "", prev |-> <<>>, waitOn |-> "",
            resume |-> ""]

IdleDisc == [pc |-> "idle", was_favorite |-> FALSE, new_id |-> ""]

FavIdle ==
    /\ connected_slaves = <<>>
    /\ is_favorite = EmptyFcn
    /\ favReq = [q \in FavRequests |-> IdleReq]
    /\ favDisc = [s \in FavSlaves |-> IdleDisc]

RoundIdle ==
    /\ roundCfg = [mode |-> "idle"]
    /\ rndPc = "idle"
    /\ rndEnded = ""
    /\ rndQueue = <<>>
    /\ rndSent = <<>>
    /\ rndInflight = {}
    /\ rndFails = <<>>
    /\ rndIdx = 0
    /\ rndLocked = {}
    /\ rndAbandoned = {}
    /\ rndGone = {}
    /\ rndTicked = FALSE

\* Two orchestrate_loop tasks may be alive at once.
LoopSlots == {1, 2}

\* A task slot: where the task is, the session it serves, how many rounds
\* of its current bounded wait are left, the running flag it read when it
\* entered its iteration, and whether it caught an exception in its last
\* iteration or why it ended.
NoTask ==
    [pc |-> "none", session |-> "", left |-> 0, entered |-> FALSE, why |-> ""]

NoCall == [call |-> "", id |-> "", status |-> 0, changed |-> FALSE]

SessIdle ==
    /\ active_protect_loops = EmptyFcn
    /\ loopTasks = [t \in LoopSlots |-> NoTask]
    /\ sessSent = {}
    /\ sessLast = NoCall

PatIdle ==
    /\ patIn = [pattern |-> "", changes |-> <<>>, count |-> 0]
    /\ patOut = <<>>
    /\ patPc = "in"

\* No preview message handled yet.
NoPreviewMsg == [type |-> "", slave |-> "", new |-> <<>>, old |-> <<>>]

PreviewIdle ==
    /\ telemetry = EmptyFcn
    /\ last_preview_timestamp = EmptyFcn
    /\ pvLast = NoPreviewMsg

\* The modules that hold a name last_guard_upload: storage defines it as
\* None, connection_manager and endpoints import it from storage.
GuardUploadModules == {"storage", "connection_manager", "endpoints"}

ConnIdle ==
    /\ slave_connections = EmptyFcn
    /\ rcConns = <<>>
    /\ last_guard_upload = [m \in GuardUploadModules |-> "None"]
    /\ rcElect = {}

\* No handshake under way.
NoHandshake ==
    [pc |-> "idle", fav_id |-> "", old_ts |-> 0, new_ts |-> 0, polls |-> 0,
     preview |-> <<>>]

\* No pause_session call yet.
NoPause == [count |-> 0, id |-> "", status |-> "", before |-> FALSE]

StepIdle ==
    /\ callIn = <<>>
    /\ callOut = <<>>
    /\ callPc = "idle"
    /\ handshake = NoHandshake
    /\ pauseLog = NoPause

(***************************************************************************)
(* SpecLock: mark, age and is_locked_change in any order while the clock   *)
(* advances.                                                               *)
(***************************************************************************)
LockPixels == {<<1, 0>>, <<0, 1>>}

LockCoordLists == {<<<<1, 0>>>>, <<<<0, 1>>>>, <<<<1, 0>>, <<0, 1>>>>}

InitLock ==
    /\ LockIdle
    /\ TrackerIdle
    /\ DistIdle
    /\ FavIdle
    /\ RoundIdle
    /\ SessIdle
    /\ PreviewIdle
    /\ ConnIdle
    /\ StepIdle
    /\ PatIdle

LockMark ==
    \E coords \in LockCoordLists, secs \in 0..MaxLockSeconds :
        /\ recently_repaired' =
              MarkRecentRepairs(recently_repaired, coords, now, secs)
        /\ lockMarks' = [k \in DOMAIN lockMarks \cup Range(coords) |->
                            IF k \in Range(coords)
                            THEN [t0 |-> now, ttl |-> secs]
                            ELSE lockMarks[k]]
        /\ lockAged' = lockAged \ Range(coords)
        /\ lockQuery' = NoQuery
        /\ UNCHANGED <<now, notLock>>

LockAge ==
    /\ recently_repaired' = AgeRecentRepairs(recently_repaired, now)
    /\ lockAged' = DOMAIN lockMarks
    /\ lockQuery' = NoQuery
    /\ UNCHANGED <<now, lockMarks, notLock>>

LockQuery ==
    \E p \in LockPixels :
        /\ lockQuery' = [coord |-> p, at |-> now,
                         result |-> IsLockedChange(recently_repaired, p, now)]
        /\ recently_repaired' = AfterIsLocked(recently_repaired, p, now)
        /\ UNCHANGED <<now, lockMarks, lockAged, notLock>>

LockTick ==
    /\ now < MaxTime
    /\ now' = now + 1
    /\ lockQuery' = NoQuery
    /\ UNCHANGED <<recently_repaired, lockMarks, lockAged, notLock>>

NextLock ==
    \/ LockMark
    \/ LockAge
    \/ LockQuery
    \/ LockTick

SpecLock == InitLock /\ [][NextLock]_vars

(***************************************************************************)
(* C6.  After mark_recent_repairs(coords) at time t0 with TTL =            *)
(* recentLockSeconds and no later mark of the same coordinate,             *)
(* is_locked_change(c) returns true at every time t < t0 + TTL and false   *)
(* at every time t >= t0 + TTL, whether or not age_recent_repairs() ran in *)
(* between.                                                                *)
(***************************************************************************)
C6_LockedUntilExpiry ==
    (lockQuery # NoQuery /\ lockQuery.coord \in DOMAIN lockMarks)
        => LET m == lockMarks[lockQuery.coord]
           IN  lockQuery.result = (lockQuery.at < m.t0 + m.ttl)

\* A marked coordinate is reported locked after an age pass ran over it, at
\* a time later than its mark.
C6_Witness ==
    /\ lockQuery # NoQuery
    /\ lockQuery.coord \in DOMAIN lockMarks
    /\ lockQuery.coord \in lockAged
    /\ lockQuery.result
    /\ lockQuery.at > lockMarks[lockQuery.coord].t0

(***************************************************************************)
(* SpecDist: compute_distribution applied to every strategy name, credit   *)
(* vector and round size within the bounds.                                *)
(***************************************************************************)
DistInput(strategy, a, b, c, round_total) ==
    [strategy |-> strategy,
     charges |-> [s \in Range(DistIds) |->
                     IF s = "a" THEN a ELSE IF s = "b" THEN b ELSE c],
     round_total |-> round_total]

\* Inputs beyond the bounds: credits whose fractional parts tie, exactly or
\* only before rounding.
DistExamples ==
    { DistInput("greedy", 7, 3, 2, 5),
      DistInput("greedy", 7, 3, 2, 11),
      DistInput("balanced", 10, 10, 10, 7),
      DistInput("balanced", 4, 1, 4, 3) }

InitDist ==
    /\ distIn \in [strategy : Strategies,
                   charges : [Range(DistIds) -> -1..MaxCredit],
                   round_total : 0..MaxTarget] \cup DistExamples
    /\ distPlan = NoPlan
    /\ distPc = "in"
    /\ TrackerIdle
    /\ LockIdle
    /\ FavIdle
    /\ RoundIdle
    /\ SessIdle
    /\ PreviewIdle
    /\ ConnIdle
    /\ StepIdle
    /\ PatIdle

DistCompute ==
    /\ distPc = "in"
    /\ distPlan' = compute_distribution(distIn.strategy, DistIds,
                                        distIn.charges, distIn.round_total)
    /\ distPc' = "out"
    /\ UNCHANGED <<distIn, notDist>>

NextDist == DistCompute

SpecDist == InitDist /\ [][NextDist]_vars

PositiveCredit(s) == Max2(0, distIn.charges[s])

DistPositiveTotal ==
    SumOver([s \in Range(DistIds) |-> PositiveCredit(s)], Range(DistIds))

(***************************************************************************)
(* C8.  For every strategy name, credit vector and round size the plan     *)
(* satisfies plan[s] <= credits[s] for every worker s (0 for workers with  *)
(* credit <= 0) and sum(plan) <= min(target, sum(credits)).  This is the   *)
(* claim as stated; a negative credit lowers sum(credits) below the plan.  *)
(***************************************************************************)
C8_PlanWithinCredits ==
    distPc = "out" =>
        /\ \A s \in Range(DistIds) : distPlan[s] <= PositiveCredit(s)
        /\ SumOver(distPlan, Range(DistIds))
             <= Min2(distIn.round_total,
                     SumOver(distIn.charges, Range(DistIds)))

(***************************************************************************)
(* C9.  For every strategy, whenever the round size is at least 1 and at   *)
(* least one worker has positive credit, sum(plan) equals                  *)
(* min(target, sum of positive credits).                                   *)
(***************************************************************************)
C9_PlanUsesCapacity ==
    (/\ distPc = "out"
     /\ distIn.round_total >= 1
     /\ \E s \in Range(DistIds) : distIn.charges[s] > 0)
        => SumOver(distPlan, Range(DistIds))
             = Min2(distIn.round_total, DistPositiveTotal)

\* A balanced plan whose floor shares fall short of the target and that
\* leaves one worker below its credit.
C9_Witness ==
    /\ distPc = "out"
    /\ distIn.strategy = "balanced"
    /\ distIn.round_total = 2
    /\ distIn.charges = [s \in Range(DistIds) |-> MaxCredit]
    /\ SumOver(distPlan, Range(DistIds)) = 2

(***************************************************************************)
(* SpecTracker: the BatchTracker operations, applied in any order to one   *)
(* request id.                                                             *)
(***************************************************************************)
TrackerRequest == "r1"

TrackerPayloads ==
    { Payload(<<0, 0>>, <<<<1, 0>>>>, <<4>>),
      Payload(<<1, 0>>, <<<<1000, 0>>>>, <<4>>) }

TrackerKeys == {<<s, PayloadKey(p)>> : s \in Slaves, p \in TrackerPayloads}

InitTracker ==
    /\ TrackerIdle
    /\ LockIdle
    /\ DistIdle
    /\ FavIdle
    /\ RoundIdle
    /\ SessIdle
    /\ PreviewIdle
    /\ ConnIdle
    /\ StepIdle
    /\ PatIdle

OpCreate ==
    /\ batches' = TrackerCreate(batches, TrackerRequest)
    /\ UNCHANGED notTracker

OpAssign ==
    \E s \in Slaves, p \in TrackerPayloads :
        /\ IF HasBatch(batches, TrackerRequest)
           THEN <<s, PayloadKey(p)>> \in DOMAIN batches[TrackerRequest].assignments
                \/ Len(batches[TrackerRequest].order) < MaxAssignments
           ELSE TRUE
        /\ batches' = TrackerAssign(batches, TrackerRequest, s, p, 0)
        /\ UNCHANGED notTracker

OpMark ==
    \E s \in Slaves, p \in TrackerPayloads, ok \in BOOLEAN :
        /\ batches' = TrackerMark(batches, TrackerRequest, s,
                                  p.tileX, p.tileY, p.coords, ok)
        /\ UNCHANGED notTracker

OpIncAttempts ==
    \E k \in TrackerKeys :
        /\ HasBatch(batches, TrackerRequest)
           => (k \in DOMAIN batches[TrackerRequest].assignments
               => batches[TrackerRequest].assignments[k].attempts < MaxAttempts)
        /\ batches' = TrackerIncAttempts(batches, TrackerRequest, k)
        /\ UNCHANGED notTracker

OpCleanup ==
    \E m \in 0..MaxRetriesCfg :
        /\ batches' = TrackerCleanup(batches, TrackerRequest, m)
        /\ UNCHANGED notTracker

NextTracker ==
    \/ OpCreate
    \/ OpAssign
    \/ OpMark
    \/ OpIncAttempts
    \/ OpCleanup

SpecTracker == InitTracker /\ [][NextTracker]_vars

(***************************************************************************)
(* C1.  After every BatchTracker operation, get_pending(request_id) equals *)
(* the number of the request's assignments whose status is 'pending'.      *)
(* This is the claim as stated; inc_attempts breaks it.                    *)
(***************************************************************************)
C1_PendingMatchesCount ==
    HasBatch(batches, TrackerRequest)
        => GetPending(batches, TrackerRequest)
             = CountPending(batches[TrackerRequest])

(***************************************************************************)
(* SpecFav: the favorite flag under worker connect, disconnect, eviction   *)
(* on a failed send, and set_favorite_slave requests (connection_manager.py*)
(* and endpoints.py).  The handlers are coroutines of one event loop: the  *)
(* code between two awaits is one action, and every await of a send or a   *)
(* broadcast is a point where another handler may run.                     *)
(* slave_connections and connected_slaves gain and lose an id in the same  *)
(* await-free stretch (connection_manager.py:59-70, 136-147), so the keys  *)
(* of connected_slaves stand for both.  A worker does not reconnect under  *)
(* its id while a disconnect_slave call for that id is still running.      *)
(***************************************************************************)
Connected == Range(connected_slaves)

\* The connected workers whose is_favorite is true.
Favorites == {s \in Connected : is_favorite[s]}

\* del connected_slaves[s]
Without(seq, s) ==
    LET Keep(x) == x # s
    IN  SelectSeq(seq, Keep)

DropFlag(fav, s) == [x \in DOMAIN fav \ {s} |-> fav[x]]

\* disconnect_slave up to its first await: was_favorite is read, then
\* cleanup_disconnected_slave removes the worker.
DiscStart(fav, s) ==
    [pc |-> "broadcast", was_favorite |-> fav[s], new_id |-> ""]

\* connect_slave: the first worker of an empty registry is the favorite; a
\* known id only has its last_seen refreshed.
FavConnect ==
    \E s \in FavSlaves :
        /\ favDisc[s].pc = "idle"
        /\ IF s \in Connected
           THEN UNCHANGED <<connected_slaves, is_favorite>>
           ELSE /\ connected_slaves' = Append(connected_slaves, s)
                /\ is_favorite' =
                      [x \in Connected \cup {s} |->
                          IF x = s THEN Len(connected_slaves) = 0
                          ELSE is_favorite[x]]
        /\ UNCHANGED <<favReq, favDisc, notFav>>

\* websocket_slave_endpoint's except branch: disconnect_slave(s), up to the
\* broadcast of slave_disconnected.
FavDisconnect ==
    \E s \in FavSlaves :
        /\ s \in Connected
        /\ favDisc[s].pc = "idle"
        /\ connected_slaves' = Without(connected_slaves, s)
        /\ is_favorite' = DropFlag(is_favorite, s)
        /\ favDisc' = [favDisc EXCEPT ![s] = DiscStart(is_favorite, s)]
        /\ UNCHANGED <<favReq, notFav>>

\* disconnect_slave after the broadcast: if the worker was the favorite and
\* others remain, the first key of connected_slaves becomes the only
\* favorite and is notified.
FavDiscElect ==
    \E s \in FavSlaves :
        /\ favDisc[s].pc = "broadcast"
        /\ IF favDisc[s].was_favorite /\ connected_slaves # <<>>
           THEN LET new_id == Head(connected_slaves)
                IN  /\ is_favorite' = [x \in Connected |-> x = new_id]
                    /\ favDisc' = [favDisc EXCEPT ![s].pc = "notify",
                                                  ![s].new_id = new_id]
           ELSE /\ favDisc' = [favDisc EXCEPT ![s] = IdleDisc]
                /\ UNCHANGED is_favorite
        /\ UNCHANGED <<connected_slaves, favReq, notFav>>

\* The sends to the new favorite return.  send_to_slave evicts the worker
\* if a send raises: disconnect_slave(new_id) runs inside this call.
FavDiscNotify ==
    \E s \in FavSlaves, ok \in BOOLEAN :
        /\ favDisc[s].pc = "notify"
        /\ LET n == favDisc[s].new_id
           IN  IF ~ok /\ n \in Connected
               THEN /\ connected_slaves' = Without(connected_slaves, n)
                    /\ is_favorite' = DropFlag(is_favorite, n)
                    /\ favDisc' = [favDisc EXCEPT
                                     ![n] = DiscStart(is_favorite, n),
                                     ![s].pc = "wait"]
               ELSE /\ favDisc' = [favDisc EXCEPT ![s] = IdleDisc]
                    /\ UNCHANGED <<connected_slaves, is_favorite>>
        /\ UNCHANGED <<favReq, notFav>>

\* The nested disconnect_slave returned; the outer one ends.
FavDiscReturn ==
    \E s \in FavSlaves :
        /\ favDisc[s].pc = "wait"
        /\ favDisc[favDisc[s].new_id].pc = "idle"
        /\ favDisc' = [favDisc EXCEPT ![s] = IdleDisc]
        /\ UNCHANGED <<connected_slaves, is_favorite, favReq, notFav>>

\* The demote loop of set_favorite_slave skips a previous favorite that is
\* no longer in connected_slaves.
RECURSIVE DropGone(_, _)
DropGone(prev, conn) ==
    IF prev = <<>> THEN <<>>
    ELSE IF Head(prev) \in conn THEN prev
    ELSE DropGone(Tail(prev), conn)

\* set_favorite_slave from the head of its demote loop to its next await:
\* the next previous favorite still connected is demoted (await of the
\* send to it), or the loop is over and the target is promoted (await of
\* the send to it); connected_slaves[slave_id] raises KeyError if the
\* target is gone, which ends the request.
FavAfterLoop(fav, conn, target, prev) ==
    LET rest == DropGone(prev, conn)
    IN  IF rest # <<>> THEN [fav EXCEPT ![Head(rest)] = FALSE]
        ELSE IF target \in conn THEN [fav EXCEPT ![target] = TRUE]
        ELSE fav

ReqAfterLoop(req, conn) ==
    LET rest == DropGone(req.prev, conn)
    IN  IF rest # <<>> THEN [req EXCEPT !.pc = "demote", !.prev = rest]
        ELSE IF req.target \in conn
             THEN [req EXCEPT !.pc = "promoted", !.prev = <<>>]
        ELSE IdleReq

\* POST /api/slaves/{slave_id}/favorite up to its first await.
FavSetFavorite ==
    \E q \in FavRequests, slave_id \in FavSlaves :
        /\ favReq[q].pc = "idle"
        /\ IF slave_id \notin Connected
           THEN UNCHANGED <<is_favorite, favReq>>
           ELSE IF is_favorite[slave_id]
           THEN /\ favReq' = [favReq EXCEPT ![q] =
                                [IdleReq EXCEPT !.pc = "refresh",
                                                !.target = slave_id]]
                /\ UNCHANGED is_favorite
           ELSE LET IsPrev(sid) == is_favorite[sid] /\ sid # slave_id
                    previous_favorites == SelectSeq(connected_slaves, IsPrev)
                    req == [IdleReq EXCEPT !.target = slave_id,
                                           !.prev = previous_favorites]
                IN  /\ is_favorite' = FavAfterLoop(is_favorite, Connected,
                                                   slave_id, previous_favorites)
                    /\ favReq' = [favReq EXCEPT ![q] =
                                    ReqAfterLoop(req, Connected)]
        /\ UNCHANGED <<connected_slaves, favDisc, notFav>>

\* The request goes on after the await it stood at (label `at`).
ReqStep(q, at) ==
    IF at = "demote"
    THEN LET req == [favReq[q] EXCEPT !.prev = Tail(@), !.waitOn = "",
                                      !.resume = ""]
         IN  /\ is_favorite' = FavAfterLoop(is_favorite, Connected,
                                            req.target, req.prev)
             /\ favReq' = [favReq EXCEPT ![q] = ReqAfterLoop(req, Connected)]
    ELSE /\ favReq' = [favReq EXCEPT ![q] = IdleReq]
         /\ UNCHANGED is_favorite

\* The worker the request's awaited send goes to.
SentTo(req) == IF req.pc = "demote" THEN Head(req.prev) ELSE req.target

\* The awaited send_to_slave returns: the send went through, or it raised
\* and send_to_slave runs disconnect_slave for that worker before the
\* request goes on.
FavReqResume ==
    \E q \in FavRequests, ok \in BOOLEAN :
        /\ favReq[q].pc \in {"refresh", "demote", "promoted"}
        /\ LET to == SentTo(favReq[q])
           IN  IF ~ok /\ to \in Connected
               THEN /\ connected_slaves' = Without(connected_slaves, to)
                    /\ is_favorite' = DropFlag(is_favorite, to)
                    /\ favDisc' = [favDisc EXCEPT
                                     ![to] = DiscStart(is_favorite, to)]
                    /\ favReq' = [favReq EXCEPT ![q].pc = "wait",
                                                ![q].waitOn = to,
                                                ![q].resume = favReq[q].pc]
               ELSE /\ ReqStep(q, favReq[q].pc)
                    /\ UNCHANGED <<connected_slaves, favDisc>>
        /\ UNCHANGED notFav

\* The disconnect_slave run by send_to_slave returned.
FavReqReturn ==
    \E q \in FavRequests :
        /\ favReq[q].pc = "wait"
        /\ favDisc[favReq[q].waitOn].pc = "idle"
        /\ ReqStep(q, favReq[q].resume)
        /\ UNCHANGED <<connected_slaves, favDisc, notFav>>

InitFav ==
    /\ FavIdle
    /\ RoundIdle
    /\ SessIdle
    /\ PreviewIdle
    /\ ConnIdle
    /\ StepIdle
    /\ PatIdle
    /\ TrackerIdle
    /\ LockIdle
    /\ DistIdle

NextFav ==
    \/ FavConnect
    \/ FavDisconnect
    \/ FavDiscElect
    \/ FavDiscNotify
    \/ FavDiscReturn
    \/ FavSetFavorite
    \/ FavReqResume
    \/ FavReqReturn

SpecFav == InitFav /\ [][NextFav]_vars

(***************************************************************************)
(* C4.  In every reachable state, the states at the await points of        *)
(* connect, disconnect, eviction and concurrent set-favorite requests      *)
(* included, at most one connected worker has is_favorite = true.  This is *)
(* the claim as stated; two requests for different targets break it.       *)
(***************************************************************************)
C4_AtMostOneFavorite == Cardinality(Favorites) <= 1

(***************************************************************************)
(* C5.  In every reachable state where at least one worker is connected,   *)
(* exactly one connected worker is favorite.  This is the claim as stated; *)
(* a request whose target left during the demotion leaves none.            *)
(***************************************************************************)
C5_ExactlyOneFavorite ==
    connected_slaves # <<>> => Cardinality(Favorites) = 1

(***************************************************************************)
(* SpecRound: one iteration of orchestrate_loop, or one call of one_batch  *)
(* (session_orchestrator.py), with the paint_result handler of             *)
(* endpoints.py running between its awaits.  The session's workers stay    *)
(* connected through the iteration; the preview changes are those that     *)
(* pass the type and color filters; the clock stands still.                *)
(***************************************************************************)
\* A worker's remaining_charges is drawn from 0..MaxRoundCredit.
MaxRoundCredit == 2

\* guard_config['pixelsPerBatch'] is drawn from 1..MaxPixelsPerBatch.
MaxPixelsPerBatch == 2

\* storage.py:77  RECENT_LOCK_SECONDS = 60, also the default of
\* guard_config['recentLockSeconds']
RECENT_LOCK_SECONDS == 60

\* current_valid_slaves, in the order of session.slave_ids
RoundSlaves == <<"a", "b">>

\* The preview's change lists; <<1000, 0>> lies in another tile.
RoundChangeLists ==
    { <<>>,
      <<<<1, 0>>>>,
      <<<<1, 0>>, <<0, 1>>>>,
      <<<<1, 0>>, <<1000, 0>>>>,
      <<<<1, 0>>, <<0, 1>>, <<1000, 0>>>> }

\* The expectedColor of the change at a coordinate.
ExpectedColor(p) == 1 + ((p[1] + 2 * p[2]) % 5)

\* The lockout table when the iteration starts: empty, a live entry for
\* <<1, 0>>, or an entry for it that has just expired.
RoundLockTables ==
    { EmptyFcn,
      [k \in {<<1, 0>>} |-> 1 + RECENT_LOCK_SECONDS],
      [k \in {<<1, 0>>} |-> 1] }

RoundStrategies == {"greedy", "round_robin"}

sum_charges(cfg) == SumOver(cfg.charges, Range(RoundSlaves))

\* Mutant: the round takes every credit, whatever spendAllPixelsOnStart is.
DesiredAll(cfg) == sum_charges(cfg)

\* desired (orchestrate_loop) and round_total (one_batch)
Desired(cfg) ==
    IF cfg.spend_all THEN sum_charges(cfg)
    ELSE Min2(sum_charges(cfg), cfg.pixels_per_batch)

\* Mutant: the loop never waits for the credits to refill.
NeverWait(spend_all, total, pixels_per_batch) == FALSE

\* if not spend_all and sum_charges < pixels_per_batch
WaitForCharges(spend_all, total, pixels_per_batch) ==
    ~spend_all /\ total < pixels_per_batch

\* one_batch's own plan: one unit per turn over the workers with credit.
OneBatchPlan(ids, ch, round_total) ==
    LET HasCredit(sid) == ch[sid] > 0
    IN  RoundRobinFill(ZeroPlan(ids), SelectSeq(ids, HasCredit), ch,
                       round_total, 0)

\* The value of idx when one_batch's planning loop ends.
RECURSIVE OneBatchIdx(_, _, _, _, _)
OneBatchIdx(plan, order, valid, need, idx) ==
    IF need <= 0 \/ order = <<>> THEN idx
    ELSE LET sid   == order[(idx % Len(order)) + 1]
             room  == plan[sid] < valid[sid]
             plan2 == IF room THEN [plan EXCEPT ![sid] = @ + 1] ELSE plan
             need2 == IF room THEN need - 1 ELSE need
         IN  IF \A s \in Range(order) : plan2[s] >= valid[s] /\ need2 > 0
             THEN idx + 1
             ELSE OneBatchIdx(plan2, order, valid, need2, idx + 1)

RoundPlan(cfg) ==
    IF cfg.mode = "loop"
    THEN compute_distribution(cfg.strategy, RoundSlaves, cfg.charges,
                              Desired(cfg))
    ELSE OneBatchPlan(RoundSlaves, cfg.charges, Desired(cfg))

\* idx when the retry loop starts: 0 in orchestrate_loop, the planning
\* loop's counter in one_batch.
RoundIdx(cfg) ==
    IF cfg.mode = "loop" THEN 0
    ELSE LET HasCredit(sid) == cfg.charges[sid] > 0
         IN  OneBatchIdx(ZeroPlan(RoundSlaves), SelectSeq(RoundSlaves, HasCredit),
                         cfg.charges, Desired(cfg), 0)

\* Mutant: the lock filter keeps every change.
KeepLocked(rr, changes, t) == changes

\* [ch for ch in changes if not is_locked_change(ch)]
UnlockedChanges(rr, changes, t) ==
    LET Free(c) == ~IsLockedChange(rr, c, t)
    IN  SelectSeq(changes, Free)

\* The table the filter leaves: is_locked_change drops expired entries.
RECURSIVE AfterLockFilter(_, _, _)
AfterLockFilter(rr, changes, t) ==
    IF changes = <<>> THEN rr
    ELSE AfterLockFilter(AfterIsLocked(rr, Head(changes), t), Tail(changes), t)

\* select_pixels_by_pattern with the default pattern 'random': the first
\* `pick` changes of some shuffle of the list.
Selections(changes, pick) ==
    LET Injective(f) == \A i, j \in 1..pick : i # j => f[i] # f[j]
    IN  { [i \in 1..pick |-> changes[f[i]]] :
             f \in {g \in [1..pick -> DOMAIN changes] : Injective(g)} }

\* Mutant: rr_list starts with the last planned worker.
RECURSIVE RrListReversed(_, _)
RrListReversed(ids, plan) ==
    IF ids = <<>> THEN <<>>
    ELSE RrListReversed(Tail(ids), plan)
         \o [i \in 1..plan[Head(ids)] |-> Head(ids)]

\* rr_list: each planned worker, repeated plan[sid] times.
RECURSIVE RrList(_, _)
RrList(ids, plan) ==
    IF ids = <<>> THEN <<>>
    ELSE [i \in 1..plan[Head(ids)] |-> Head(ids)] \o RrList(Tail(ids), plan)

\* queues[sid]: the selected changes whose position in rr_list is sid's.
RECURSIVE QueueOf(_, _, _, _)
QueueOf(sid, selected, rr_list, i) ==
    IF i > Len(selected) THEN <<>>
    ELSE (IF rr_list[i] = sid THEN <<selected[i]>> ELSE <<>>)
         \o QueueOf(sid, selected, rr_list, i + 1)

\* The keys of tiles_data, in order of first appearance.
RECURSIVE TilesOf(_)
TilesOf(items) ==
    IF items = <<>> THEN <<>>
    ELSE LET t == TileOf(Head(items))
             Other(c) == TileOf(c) # t
         IN  <<t>> \o TilesOf(SelectSeq(Tail(items), Other))

\* send_consolidated: one payload per tile of the worker's queue.
TilePayloads(items) ==
    LET tiles == TilesOf(items)
    IN  [n \in 1..Len(tiles) |->
            LET InTile(c) == TileOf(c) = tiles[n]
                coords == SelectSeq(items, InTile)
            IN  Payload(tiles[n], coords,
                        [i \in 1..Len(coords) |-> ExpectedColor(coords[i])])]

\* The <<worker, payload>> pairs in the order they are assigned and sent.
RECURSIVE DispatchQueue(_, _, _)
DispatchQueue(ids, selected, rr_list) ==
    IF ids = <<>> THEN <<>>
    ELSE LET payloads == TilePayloads(QueueOf(Head(ids), selected, rr_list, 1))
         IN  [n \in 1..Len(payloads) |-> <<Head(ids), payloads[n]>>]
             \o DispatchQueue(Tail(ids), selected, rr_list)

\* The checks of orchestrate_loop that end the iteration in a sleep
\* before the lock filter runs; "" if it goes on.
LoopStop(cfg) ==
    LET plan == RoundPlan(cfg)
    IN  IF cfg.changes = <<>> THEN "no_changes"
        ELSE IF sum_charges(cfg) <= 0 THEN "no_charges"
        ELSE IF Desired(cfg) <= 0 THEN "zero_desired"
        ELSE IF WaitForCharges(cfg.spend_all, sum_charges(cfg),
                               cfg.pixels_per_batch) THEN "wait_charges"
        ELSE IF \A sid \in Range(RoundSlaves) : plan[sid] <= 0 THEN "no_plan"
        ELSE ""

\* The early returns of one_batch, which filters the locked changes first.
OneBatchStop(cfg, changes) ==
    IF changes = <<>> THEN "no_changes"
    ELSE IF sum_charges(cfg) <= 0 THEN "no_charges"
    ELSE IF Desired(cfg) <= 0 THEN "zero_round_total"
    ELSE ""

InitRound ==
    /\ roundCfg \in [mode : {"loop", "one_batch"},
                     spend_all : BOOLEAN,
                     pixels_per_batch : 1..MaxPixelsPerBatch,
                     strategy : RoundStrategies,
                     max_retries : 0..MaxRetriesCfg,
                     charges : [Range(RoundSlaves) -> 0..MaxRoundCredit],
                     changes : RoundChangeLists]
    /\ rndPc = "start"
    /\ rndEnded = ""
    /\ rndQueue = <<>>
    /\ rndSent = <<>>
    /\ rndInflight = {}
    /\ rndFails = <<>>
    /\ rndIdx = 0
    /\ rndLocked = {}
    /\ rndAbandoned = {}
    /\ rndGone = {}
    /\ rndTicked = FALSE
    /\ recently_repaired \in RoundLockTables
    /\ now = 1
    /\ lockMarks = EmptyFcn
    /\ lockAged = {}
    /\ lockQuery = NoQuery
    /\ TrackerIdle
    /\ DistIdle
    /\ FavIdle
    /\ SessIdle
    /\ PreviewIdle
    /\ ConnIdle
    /\ StepIdle
    /\ PatIdle

\* The iteration ends before a request is created: orchestrate_loop sleeps
\* and starts over, one_batch returns.
RoundStops(reason) ==
    /\ rndPc' = IF roundCfg.mode = "loop" THEN "sleep" ELSE "done"
    /\ rndEnded' = reason
    /\ UNCHANGED <<batches, rndQueue, rndIdx>>

\* From the charges to batch_tracker.create(req_id): planning, the lock
\* filter, the selection and the queues.  No await lies between them.
RndPlan ==
    /\ rndPc = "start"
    /\ LET cfg == roundCfg
           early == IF cfg.mode = "loop" THEN LoopStop(cfg) ELSE ""
           changes == UnlockedChanges(recently_repaired, cfg.changes, now)
           late == IF cfg.mode = "loop" THEN "" ELSE OneBatchStop(cfg, changes)
           plan == RoundPlan(cfg)
           pick == Min2(Len(changes), SumOver(plan, Range(RoundSlaves)))
       IN  IF early # ""
           THEN /\ RoundStops(early)
                /\ UNCHANGED <<recently_repaired, rndLocked>>
           ELSE /\ recently_repaired' =
                      AfterLockFilter(recently_repaired, cfg.changes, now)
                /\ rndLocked' = {c \in Range(cfg.changes) :
                                    IsLockedChange(recently_repaired, c, now)}
                /\ IF late # "" THEN RoundStops(late)
                   ELSE IF pick <= 0 THEN RoundStops("no_pick")
                   ELSE \E selected \in Selections(changes, pick) :
                          /\ batches' = TrackerCreate(batches, TrackerRequest)
                          /\ rndQueue' = DispatchQueue(RoundSlaves, selected,
                                             RrList(RoundSlaves, plan))
                          /\ rndIdx' = RoundIdx(cfg)
                          /\ rndPc' = "dispatch"
                          /\ rndEnded' = ""
    /\ UNCHANGED <<roundCfg, rndSent, rndInflight, rndFails, rndAbandoned,
                   goneVars,
                   notRound>>

\* orchestrate_loop's sleep is over: the next iteration re-evaluates.
RndWake ==
    /\ rndPc = "sleep"
    /\ rndPc' = "start"
    /\ rndEnded' = ""
    /\ rndLocked' = {}
    /\ UNCHANGED <<roundCfg, rndQueue, rndSent, rndInflight, rndFails, rndIdx,
                   rndAbandoned, batches, recently_repaired, goneVars,
                   notRound>>

\* send_consolidated, one tile: batch_tracker.assign, then the paintBatch.
\* manager.send_to_slave with a paintBatch: a worker without a connection
\* is skipped without an error, any other gets the message.
SendPaintBatch(m, kind) ==
    IF m.to \in rndGone
    THEN UNCHANGED <<rndSent, rndInflight>>
    ELSE /\ rndSent' = Append(rndSent, [to |-> m.to, payload |-> m.payload,
                                        kind |-> kind])
         /\ rndInflight' = rndInflight \cup {m}

RndSend ==
    /\ rndPc = "dispatch"
    /\ rndQueue # <<>>
    /\ LET slave_id == Head(rndQueue)[1]
           payload == Head(rndQueue)[2]
       IN  /\ batches' = TrackerAssign(batches, TrackerRequest, slave_id,
                                       payload, 0)
           /\ SendPaintBatch([to |-> slave_id, payload |-> payload], "first")
    /\ rndQueue' = Tail(rndQueue)
    /\ rndPc' = IF Tail(rndQueue) = <<>> THEN "wait" ELSE "dispatch"
    /\ UNCHANGED <<roundCfg, rndEnded, rndFails, rndIdx, rndLocked,
                   rndAbandoned, recently_repaired, goneVars,
                   notRound>>

\* _handle_paint_result_message: a worker answers a paintBatch it holds
\* with the batch's tile and coords; ok results lock the coords.
RndPaintResult ==
    \E m \in rndInflight, ok \in BOOLEAN :
        /\ rndPc \in {"dispatch", "wait", "retry"}
        /\ batches' = TrackerMark(batches, TrackerRequest, m.to,
                                  m.payload.tileX, m.payload.tileY,
                                  m.payload.coords, ok)
        /\ recently_repaired' =
              IF ok THEN MarkRecentRepairs(recently_repaired, m.payload.coords,
                                           now, RECENT_LOCK_SECONDS)
              ELSE recently_repaired
        /\ rndInflight' = rndInflight \ {m}
        /\ UNCHANGED <<roundCfg, rndPc, rndEnded, rndQueue, rndSent, rndFails,
                       rndIdx, rndLocked, rndAbandoned, goneVars,
                   notRound>>

\* failed_assignments as the retry tick keeps it: key and payload.
FailsSnapshot(b, r) ==
    LET keys == FailedAssignments(b, r)
    IN  [i \in 1..Len(keys) |-> <<keys[i], b[r].assignments[keys[i]].payload>>]

\* Mutant: every valid worker is a candidate, the failed one included.
CandidatesAny(valid, sid, charges) == valid

\* candidates: the other workers with credit, else the other workers, else
\* every valid worker.
CandidatesOf(valid, sid, charges) ==
    LET OtherWithCredit(x) == x # sid /\ charges[x] > 0
        Other(x) == x # sid
    IN  IF SelectSeq(valid, OtherWithCredit) # <<>>
        THEN SelectSeq(valid, OtherWithCredit)
        ELSE IF SelectSeq(valid, Other) # <<>>
        THEN SelectSeq(valid, Other)
        ELSE valid

\* candidates in a round of the workers RoundSlaves.
Candidates(sid, charges) == CandidatesOf(RoundSlaves, sid, charges)

NoFailsLeft(b, idx) ==
    [b |-> b, idx |-> idx, rest |-> <<>>, send |-> <<>>, abandoned |-> {}]

\* The body of `for (sid, key), data in fails` from the head of the list to
\* the next await: each failure bumps idx and the attempts; within
\* max_retries the payload is resent to new_sid (an await), beyond it
\* cleanup_abandoned_batches runs and the loop goes on.
RECURSIVE ProcessFails(_, _, _, _)
ProcessFails(b, fails, idx, cfg) ==
    IF fails = <<>> THEN NoFailsLeft(b, idx)
    ELSE LET k == Head(fails)[1]
             data == Head(fails)[2]
             candidates == Candidates(k[1], cfg.charges)
             idx2 == idx + 1
             new_sid == candidates[(idx2 % Len(candidates)) + 1]
             attempts == IncAttemptsResult(b, TrackerRequest, k)
             b2 == TrackerIncAttempts(b, TrackerRequest, k)
         IN  IF attempts <= cfg.max_retries
             THEN [b |-> b2, idx |-> idx2, rest |-> Tail(fails),
                   send |-> <<[to |-> new_sid, payload |-> data]>>,
                   abandoned |-> {}]
             ELSE LET r == ProcessFails(
                             TrackerCleanup(b2, TrackerRequest, cfg.max_retries),
                             Tail(fails), idx2, cfg)
                  IN  [r EXCEPT !.abandoned = @ \cup {k}]

\* What a run of ProcessFails leaves: the tracker, idx, the resend if one
\* was made, and where the retry loop stands.
RetryOutcome(r) ==
    /\ batches' = r.b
    /\ rndIdx' = r.idx
    /\ rndAbandoned' = rndAbandoned \cup r.abandoned
    /\ rndFails' = r.rest
    /\ IF r.send # <<>>
       THEN /\ SendPaintBatch(r.send[1], "retry")
            /\ rndPc' = "retry"
       ELSE /\ UNCHANGED <<rndSent, rndInflight>>
            /\ rndPc' = "wait"

\* A turn of the retry loop after its sleep of 0.3 s: the round is over if
\* get_pending(req_id) is 0, else the failed assignments are processed.
RndRetryTick ==
    /\ rndPc = "wait"
    /\ IF GetPending(batches, TrackerRequest) = 0
       THEN /\ rndPc' = "done"
            /\ rndEnded' = "resolved"
            /\ UNCHANGED <<batches, rndIdx, rndAbandoned, rndFails, rndSent,
                           rndInflight>>
       ELSE /\ RetryOutcome(ProcessFails(batches,
                                FailsSnapshot(batches, TrackerRequest),
                                rndIdx, roundCfg))
            /\ UNCHANGED rndEnded
    /\ rndTicked' = (rndGone # {} /\ rndPc' # "done")
    /\ UNCHANGED <<roundCfg, rndQueue, rndLocked, recently_repaired, rndGone,
                   notRound>>

\* The resend returned: the for loop goes on with the rest of its snapshot.
RndRetryResume ==
    /\ rndPc = "retry"
    /\ RetryOutcome(ProcessFails(batches, rndFails, rndIdx, roundCfg))
    /\ UNCHANGED <<roundCfg, rndEnded, rndQueue, rndLocked, recently_repaired,
                   goneVars,
                   notRound>>

\* The loop condition finds the deadline (90 s, 45 s in one_batch) passed.
RndDeadline ==
    /\ rndPc = "wait"
    /\ rndPc' = "done"
    /\ rndEnded' = "deadline"
    /\ UNCHANGED <<roundCfg, rndQueue, rndSent, rndInflight, rndFails, rndIdx,
                   rndLocked, rndAbandoned, batches, recently_repaired,
                   goneVars,
                   notRound>>

NextRound ==
    \/ RndPlan
    \/ RndWake
    \/ RndSend
    \/ RndPaintResult
    \/ RndRetryTick
    \/ RndRetryResume
    \/ RndDeadline

SpecRound == InitRound /\ [][NextRound]_vars

\* The request's assignments.
RoundAssignments ==
    IF HasBatch(batches, TrackerRequest)
    THEN batches[TrackerRequest].assignments
    ELSE EmptyFcn

(***************************************************************************)
(* C2.  A failed assignment whose attempts are below maxRetries is resent  *)
(* by the next retry tick, also when it is the only or the last unresolved *)
(* one: the retry loop never ends the round early, on get_pending = 0,     *)
(* while a retryable failed assignment remains.  This is the claim as      *)
(* stated; mark's recount leaves pending at 0 and the tick breaks.         *)
(***************************************************************************)
C2_RetryBeforeEnd ==
    (rndPc = "done" /\ rndEnded = "resolved")
        => \A k \in DOMAIN RoundAssignments :
              ~(/\ RoundAssignments[k].status = "failed"
                /\ RoundAssignments[k].attempts < roundCfg.max_retries)

(***************************************************************************)
(* C3.  When processing a failure raises an assignment's attempts above    *)
(* maxRetries, the retry loop's cleanup removes that assignment from the   *)
(* tracker.  This is the claim as stated; inc_attempts has set the status  *)
(* back to 'pending' and the cleanup removes 'failed' assignments only.    *)
(***************************************************************************)
C3_AbandonedRemoved ==
    \A k \in rndAbandoned : k \notin DOMAIN RoundAssignments

(***************************************************************************)
(* C7.  A coordinate that holds a live lockout entry when the iteration    *)
(* filters its change list is in no paintBatch sent for the iteration's    *)
(* request, neither in the first dispatch nor in a retry resend.           *)
(***************************************************************************)
C7_LockedNotSent ==
    \A i \in DOMAIN rndSent :
        Range(rndSent[i].payload.coords) \cap rndLocked = {}

\* A coordinate was locked at the filter, and the request has had both a
\* first dispatch and a retry resend.
C7_Witness ==
    /\ rndLocked # {}
    /\ \E i \in DOMAIN rndSent : rndSent[i].kind = "first"
    /\ \E i \in DOMAIN rndSent : rndSent[i].kind = "retry"

(***************************************************************************)
(* C10.  In the session loop, when spendAllPixelsOnStart is false and the  *)
(* valid workers' credits sum to less than pixelsPerBatch, the iteration   *)
(* creates no tracker request and sends no paintBatch; it sleeps and the   *)
(* next iteration re-evaluates.                                            *)
(***************************************************************************)
C10_WaitsForCharges ==
    (/\ roundCfg.mode = "loop"
     /\ ~roundCfg.spend_all
     /\ sum_charges(roundCfg) < roundCfg.pixels_per_batch)
        => /\ ~HasBatch(batches, TrackerRequest)
           /\ rndSent = <<>>
           /\ rndPc \in {"start", "sleep"}

\* The loop sleeps on the wait-for-charges check itself: there are changes
\* and some credit, but less than a batch.
C10_Witness ==
    /\ roundCfg.mode = "loop"
    /\ rndPc = "sleep"
    /\ rndEnded = "wait_charges"
    /\ sum_charges(roundCfg) > 0

\* The pixels of the iteration's first dispatch: the coords of its
\* paintBatch messages, retry resends left out.
RECURSIVE FirstPixels(_)
FirstPixels(sent) ==
    IF sent = <<>> THEN 0
    ELSE (IF Head(sent).kind = "first" THEN Len(Head(sent).payload.coords)
          ELSE 0) + FirstPixels(Tail(sent))

\* A loop iteration that is past its dispatch (or slept instead), with
\* spendAllPixelsOnStart false, changes to repair and credit for a batch.
BatchDue ==
    /\ roundCfg.mode = "loop"
    /\ ~roundCfg.spend_all
    /\ roundCfg.changes # <<>>
    /\ sum_charges(roundCfg) >= roundCfg.pixels_per_batch
    /\ rndPc \in {"wait", "retry", "done", "sleep"}

(***************************************************************************)
(* C11, as stated.  When spendAllPixelsOnStart is false, the change list   *)
(* is non-empty and the credits sum to at least pixelsPerBatch, the        *)
(* iteration dispatches exactly pixelsPerBatch pixels.  It does not when   *)
(* fewer changes than that are left after the lock filter.                 *)
(***************************************************************************)
C11_DispatchesBatch ==
    BatchDue => FirstPixels(rndSent) = roundCfg.pixels_per_batch

(***************************************************************************)
(* C11, amended.  Under the same conditions the iteration dispatches       *)
(* min(pixelsPerBatch, number of changes not locked) pixels.               *)
(***************************************************************************)
C11_DispatchesAvailable ==
    BatchDue => FirstPixels(rndSent) =
                  Min2(roundCfg.pixels_per_batch,
                       Len(roundCfg.changes) - Cardinality(rndLocked))

\* A full batch was dispatched although more changes and more credit were
\* there.
C11_Witness ==
    /\ BatchDue
    /\ FirstPixels(rndSent) = roundCfg.pixels_per_batch
    /\ Len(roundCfg.changes) - Cardinality(rndLocked) > roundCfg.pixels_per_batch
    /\ sum_charges(roundCfg) > roundCfg.pixels_per_batch

(***************************************************************************)
(* C12.  If every assignment of a request was last marked ok by its own    *)
(* worker, get_pending(request_id) is 0, whatever mark(failed) and         *)
(* inc_attempts cycles came before.  An assignment's status is 'ok'        *)
(* exactly when the last operation on it was such a mark(ok): assign and   *)
(* inc_attempts set 'pending', mark(failed) sets 'failed'.                 *)
(***************************************************************************)
C12_AllOkNoPending ==
    (/\ HasBatch(batches, TrackerRequest)
     /\ \A k \in DOMAIN batches[TrackerRequest].assignments :
           batches[TrackerRequest].assignments[k].status = "ok")
        => GetPending(batches, TrackerRequest) = 0

\* Two assignments, both ok, one of them after a failure was retried.
C12_Witness ==
    /\ HasBatch(batches, TrackerRequest)
    /\ Len(batches[TrackerRequest].order) = 2
    /\ \A k \in DOMAIN batches[TrackerRequest].assignments :
          batches[TrackerRequest].assignments[k].status = "ok"
    /\ \E k \in DOMAIN batches[TrackerRequest].assignments :
          batches[TrackerRequest].assignments[k].attempts >= 1

\* The iteration's inputs, read by orchestrate_loop and by one_batch.
AsLoop(cfg) == [cfg EXCEPT !.mode = "loop"]

AsOneBatch(cfg) == [cfg EXCEPT !.mode = "one_batch"]

(***************************************************************************)
(* C13.  On the same workers, credits, preview, lockout entries and guard  *)
(* config, one_batch computes the same per-worker plan as one iteration of *)
(* the session loop, for every chargeStrategy and every credit vector.     *)
(* Here: whenever the loop iteration gets to a plan with a positive share. *)
(* This is the claim as stated; one_batch never reads chargeStrategy.      *)
(***************************************************************************)
C13_OneBatchPlansAsLoop ==
    (rndPc # "start" /\ LoopStop(AsLoop(roundCfg)) = "")
        => RoundPlan(AsOneBatch(roundCfg)) = RoundPlan(AsLoop(roundCfg))

(***************************************************************************)
(* SpecSession: start_session, stop_session, one_batch and the             *)
(* orchestrate_loop tasks (session_orchestrator.py).  The sessions,        *)
(* projects and connections are fixed: s1 is startable, the project of s2  *)
(* is missing, the only slave of s3 is not connected, zz is unknown.  What *)
(* an iteration plans and sends is the subject of SpecRound; here an       *)
(* iteration is its control flow, its bounded waits and its effects on the *)
(* running flags, the messages sent and the tracker.  Every request id is  *)
(* TrackerRequest, so the tracker holds the latest request only.           *)
(***************************************************************************)
MaxPreviewPolls == 2

MaxRetryTicks == 2

SessionIds == {"s1", "s2", "s3", "zz"}

active_sessions == {"s1", "s2", "s3"}

HasProject(id) == id # "s2"

SessionSlaveIds(id) == IF id = "s3" THEN <<"c">> ELSE <<"a">>

SessConnected == {"a"}

ValidSlaves(id) ==
    LET isConnected(s) == s \in SessConnected
    IN  SelectSeq(SessionSlaveIds(id), isConnected)

\* The validation both handlers begin with.
SessionStatus(id) ==
    IF id \notin active_sessions THEN 404
    ELSE IF ~HasProject(id) THEN 404
    ELSE IF ValidSlaves(id) = <<>> THEN 400
    ELSE 200

AcceptAll(status) == TRUE

\* The handler goes on only when no HTTPException was raised.
Accepted(status) == status = 200

Msg(to, type) == [to |-> to, type |-> type]

\* setMode and loadProject to every valid slave.
PrepareMsgs(id) ==
    UNION { {Msg(s, "setMode"), Msg(s, "loadProject")} : s \in Range(ValidSlaves(id)) }

\* What a rejected call must leave alone.
SessCore == <<active_protect_loops, loopTasks, sessSent, batches>>

FreeSlots == {t \in LoopSlots : loopTasks[t].pc \in {"none", "exited"}}

InitSession ==
    /\ SessIdle
    /\ PreviewIdle
    /\ ConnIdle
    /\ StepIdle
    /\ PatIdle
    /\ TrackerIdle
    /\ LockIdle
    /\ DistIdle
    /\ FavIdle
    /\ RoundIdle

\* start_session up to its first await: validation, then the sends.
StartSession(id) ==
        LET st == SessionStatus(id)
        IN  IF ~Accepted(st)
            THEN /\ UNCHANGED <<active_protect_loops, loopTasks, sessSent,
                                batches, notSess>>
                 /\ sessLast' = [call |-> "start", id |-> id, status |-> st,
                                 changed |-> SessCore' # SessCore]
            ELSE \E t \in FreeSlots :
                 /\ loopTasks' = [loopTasks EXCEPT ![t] =
                                    [NoTask EXCEPT !.pc = "starting",
                                                   !.session = id]]
                 /\ sessSent' = sessSent \cup PrepareMsgs(id)
                 /\ UNCHANGED <<active_protect_loops, batches, notSess>>
                 /\ sessLast' = [call |-> "start", id |-> id, status |-> st,
                                 changed |-> SessCore' # SessCore]

\* start_session after the sends: the flag, then create_task.
StartFinish(t) ==
    /\ loopTasks[t].pc = "starting"
    /\ active_protect_loops' =
          (loopTasks[t].session :> TRUE) @@ active_protect_loops
    /\ loopTasks' = [loopTasks EXCEPT ![t].pc = "check"]
    /\ UNCHANGED <<sessSent, sessLast, batches, notSess>>

StopMsgs(id) ==
    {Msg(s, "control") : s \in Range(ValidSlaves(id))}

StopSession(id) ==
        /\ id \in active_sessions
        /\ active_protect_loops' =
              IF id \in DOMAIN active_protect_loops
              THEN [active_protect_loops EXCEPT ![id] = FALSE]
              ELSE active_protect_loops
        /\ sessSent' = sessSent \cup StopMsgs(id)
        /\ UNCHANGED <<loopTasks, sessLast, batches, notSess>>

\* The first tile payload of a dispatch, and the second.
TilePayload(n) ==
    IF n = 1 THEN Payload(<<0, 0>>, <<<<1, 0>>>>, <<4>>)
    ELSE Payload(<<1, 0>>, <<<<1000, 0>>>>, <<4>>)

\* one_batch: validation, the preparation sends, the preview request when
\* there is a favorite, and the round, which ends early or dispatches one
\* tile.
OneBatch(id) ==
    \E dispatched \in BOOLEAN, fav \in BOOLEAN :
        LET st == SessionStatus(id)
        IN  IF ~Accepted(st)
            THEN /\ UNCHANGED <<active_protect_loops, loopTasks, sessSent,
                                batches, notSess>>
                 /\ sessLast' = [call |-> "one_batch", id |-> id,
                                 status |-> st,
                                 changed |-> SessCore' # SessCore]
            ELSE /\ sessSent' = sessSent \cup PrepareMsgs(id) \cup
                       (IF fav THEN {Msg("a", "guardControl")} ELSE {}) \cup
                       (IF dispatched /\ ValidSlaves(id) # <<>>
                        THEN {Msg(ValidSlaves(id)[1], "paintBatch")} ELSE {})
                 /\ batches' =
                       IF dispatched /\ ValidSlaves(id) # <<>>
                       THEN TrackerAssign(TrackerCreate(batches, TrackerRequest),
                                          TrackerRequest, ValidSlaves(id)[1],
                                          TilePayload(1), 0)
                       ELSE batches
                 /\ UNCHANGED <<active_protect_loops, loopTasks, notSess>>
                 /\ sessLast' = [call |-> "one_batch", id |-> id,
                                 status |-> st,
                                 changed |-> SessCore' # SessCore]

LoopForever(id) == TRUE

\* The while condition of orchestrate_loop.
LoopContinues(id) ==
    IF id \in DOMAIN active_protect_loops THEN active_protect_loops[id]
    ELSE FALSE

InIteration(t) ==
    loopTasks[t].pc \in {"poll", "plan", "dispatch", "retry", "sleep"}

\* The head of the loop: leave, or begin an iteration, with or without a
\* favorite to ask for a preview.
LoopCheck(t) ==
    /\ loopTasks[t].pc = "check"
    /\ IF ~LoopContinues(loopTasks[t].session)
       THEN /\ loopTasks' = [loopTasks EXCEPT ![t].pc = "exited",
                                              ![t].why = "flag"]
            /\ UNCHANGED sessSent
       ELSE \E fav \in BOOLEAN :
            LET on == IF loopTasks[t].session \in DOMAIN active_protect_loops
                      THEN active_protect_loops[loopTasks[t].session]
                      ELSE FALSE
            IN  IF fav
                THEN /\ sessSent' = sessSent \cup {Msg("a", "guardControl")}
                     /\ loopTasks' = [loopTasks EXCEPT ![t].pc = "poll",
                                         ![t].left = MaxPreviewPolls,
                                         ![t].entered = on]
                ELSE /\ loopTasks' = [loopTasks EXCEPT ![t].pc = "plan",
                                         ![t].entered = on]
                     /\ UNCHANGED sessSent
    /\ UNCHANGED <<active_protect_loops, sessLast, batches, notSess>>

\* One sleep of the preview poll; it ends on a fresh preview or with the
\* last round.
LoopPoll(t) ==
    /\ loopTasks[t].pc = "poll"
    /\ \E fresh \in BOOLEAN :
          loopTasks' =
             IF fresh \/ loopTasks[t].left <= 1
             THEN [loopTasks EXCEPT ![t].pc = "plan", ![t].left = 0,
                                    ![t].why = ""]
             ELSE [loopTasks EXCEPT ![t].left = @ - 1, ![t].why = ""]
    /\ UNCHANGED <<active_protect_loops, sessSent, sessLast, batches, notSess>>

\* Planning: nothing to do (the sleeps of 5, 30 and 10 seconds), or a new
\* request for one or two tiles.
LoopPlan(t) ==
    /\ loopTasks[t].pc = "plan"
    /\ \/ /\ loopTasks' = [loopTasks EXCEPT ![t].pc = "sleep",
                                            ![t].why = ""]
          /\ UNCHANGED batches
       \/ \E tiles \in 1..2 :
          /\ loopTasks' = [loopTasks EXCEPT ![t].pc = "dispatch",
                                            ![t].left = tiles,
                                            ![t].why = ""]
          /\ batches' = TrackerCreate(batches, TrackerRequest)
    /\ UNCHANGED <<active_protect_loops, sessSent, sessLast, notSess>>

\* send_consolidated: one tile is assigned and sent; the pacing sleep
\* comes before the next one.
LoopSendTile(t) ==
    /\ loopTasks[t].pc = "dispatch"
    /\ batches' = TrackerAssign(batches, TrackerRequest, "a",
                                TilePayload(loopTasks[t].left), 0)
    /\ sessSent' = sessSent \cup {Msg("a", "paintBatch")}
    /\ loopTasks' =
          IF loopTasks[t].left <= 1
          THEN [loopTasks EXCEPT ![t].pc = "retry", ![t].left = MaxRetryTicks]
          ELSE [loopTasks EXCEPT ![t].left = @ - 1]
    /\ UNCHANGED <<active_protect_loops, sessLast, notSess>>

\* One sleep of the retry loop; it ends when nothing is pending or at the
\* deadline.
LoopRetryTick(t) ==
    /\ loopTasks[t].pc = "retry"
    /\ loopTasks' =
          IF GetPending(batches, TrackerRequest) = 0 \/ loopTasks[t].left <= 1
          THEN [loopTasks EXCEPT ![t].pc = "sleep", ![t].left = 0]
          ELSE [loopTasks EXCEPT ![t].left = @ - 1]
    /\ UNCHANGED <<active_protect_loops, sessSent, sessLast, batches, notSess>>

\* The sleep that ends an iteration.
LoopSleep(t) ==
    /\ loopTasks[t].pc = "sleep"
    /\ loopTasks' = [loopTasks EXCEPT ![t].pc = "check", ![t].left = 0]
    /\ UNCHANGED <<active_protect_loops, sessSent, sessLast, batches, notSess>>

AfterExceptionEnds == [pc |-> "exited", why |-> "error"]

\* except Exception inside the while: log, sleep 2, continue.
AfterException == [pc |-> "errsleep", why |-> "caught"]

\* Any step of an iteration may raise.
LoopException(t) ==
    /\ loopTasks[t].pc \in {"poll", "plan", "dispatch", "retry"}
    /\ loopTasks' = [loopTasks EXCEPT ![t].pc = AfterException.pc,
                                      ![t].why = AfterException.why,
                                      ![t].left = 0]
    /\ UNCHANGED <<active_protect_loops, sessSent, sessLast, batches, notSess>>

LoopErrSleep(t) ==
    /\ loopTasks[t].pc = "errsleep"
    /\ loopTasks' = [loopTasks EXCEPT ![t].pc = "check"]
    /\ UNCHANGED <<active_protect_loops, sessSent, sessLast, batches, notSess>>

\* A worker's paint_result for a tile of the current request.
SessPaintResult ==
    \E n \in 1..2, ok \in BOOLEAN :
        /\ HasBatch(batches, TrackerRequest)
        /\ <<"a", PayloadKey(TilePayload(n))>> \in
              DOMAIN batches[TrackerRequest].assignments
        /\ batches[TrackerRequest].assignments[
              <<"a", PayloadKey(TilePayload(n))>>].status = "pending"
        /\ batches' = TrackerMark(batches, TrackerRequest, "a",
                                  TilePayload(n).tileX, TilePayload(n).tileY,
                                  TilePayload(n).coords, ok)
        /\ UNCHANGED <<sessVars, notSess>>

\* The steps the event loop owes a task: every await of the task returns.
LoopStep(t) ==
    \/ StartFinish(t)
    \/ LoopCheck(t)
    \/ LoopPoll(t)
    \/ LoopPlan(t)
    \/ LoopSendTile(t)
    \/ LoopRetryTick(t)
    \/ LoopSleep(t)
    \/ LoopErrSleep(t)

NextSession ==
    \/ \E id \in SessionIds : StartSession(id)
    \/ \E id \in SessionIds : StopSession(id)
    \/ \E id \in SessionIds : OneBatch(id)
    \/ SessPaintResult
    \/ \E t \in LoopSlots : LoopStep(t)
    \/ \E t \in LoopSlots : LoopException(t)

SpecSession == InitSession /\ [][NextSession]_vars

(***************************************************************************)
(* SpecLoop: the loop tasks of the startable session under weak fairness   *)
(* of each task's own steps.  The event loop resumes a task whenever the   *)
(* sleep or send it awaits is over, so a task that can take a step         *)
(* eventually takes one; nothing obliges a caller to start or stop, a      *)
(* worker to answer, or an iteration to raise.                             *)
(***************************************************************************)
LoopSession == "s1"

NextLoop ==
    \/ StartSession(LoopSession)
    \/ StopSession(LoopSession)
    \/ SessPaintResult
    \/ \E t \in LoopSlots : LoopStep(t)
    \/ \E t \in LoopSlots : LoopException(t)

LoopFairness == \A t \in LoopSlots : WF_vars(LoopStep(t))

SpecLoop == InitSession /\ [][NextLoop]_vars /\ LoopFairness

LiveTasks(id) ==
    {t \in LoopSlots : /\ loopTasks[t].session = id
                       /\ loopTasks[t].pc \notin {"none", "exited"}}

FlagCleared(id) ==
    IF id \in DOMAIN active_protect_loops THEN ~active_protect_loops[id]
    ELSE FALSE

(***************************************************************************)
(* C14.  Once stop_session has cleared a session's running flag, and       *)
(* unless a start_session sets it again, no loop task of the session       *)
(* begins another iteration (a task is inside an iteration only if it read *)
(* a set flag at the head of the loop) and every loop task of the session  *)
(* eventually ends: the preview poll, the tile pacing and the retry loop   *)
(* are bounded.                                                            *)
(***************************************************************************)
C14_StopEndsLoop ==
    /\ [](\A t \in LoopSlots : InIteration(t) => loopTasks[t].entered)
    /\ FlagCleared(LoopSession)
          ~> (LoopContinues(LoopSession) \/ LiveTasks(LoopSession) = {})

\* A loop that had dispatched a tile found its flag cleared and ended.
C14_Witness ==
    \E t \in LoopSlots :
        /\ loopTasks[t].pc = "exited"
        /\ loopTasks[t].why = "flag"
        /\ FlagCleared(loopTasks[t].session)
        /\ Msg("a", "paintBatch") \in sessSent
        /\ Msg("a", "control") \in sessSent

(***************************************************************************)
(* C15.  An exception raised inside an iteration does not end the loop     *)
(* task: a task ends only at the head of the loop, on a flag that is not   *)
(* set, and after an exception the task gets to the head of the loop and   *)
(* from there into its next iteration, or out when the flag is not set.    *)
(***************************************************************************)
C15_ExceptionKeepsLoop ==
    /\ [](\A t \in LoopSlots :
             loopTasks[t].pc = "exited" => loopTasks[t].why = "flag")
    /\ \A t \in LoopSlots :
          (loopTasks[t].pc = "errsleep")
              ~> (InIteration(t) \/ loopTasks[t].pc = "exited")

\* A task that caught an exception has begun its next iteration.
C15_Witness ==
    \E t \in LoopSlots :
        /\ loopTasks[t].pc = "poll"
        /\ loopTasks[t].why = "caught"
        /\ LoopContinues(loopTasks[t].session)

(***************************************************************************)
(* C20.  start_session and one_batch on an unknown session id, on a        *)
(* session whose project is missing and on a session none of whose slaves  *)
(* is connected answer 404, 404 and 400 and change nothing: no running     *)
(* flag, no loop task, no message sent, no tracker request.                *)
(***************************************************************************)
C20_RejectedCallChangesNothing ==
    /\ sessLast.id \in {"zz", "s2", "s3"} =>
          /\ sessLast.status = (IF sessLast.id = "s3" THEN 400 ELSE 404)
          /\ ~sessLast.changed
    /\ DOMAIN active_protect_loops \cap {"zz", "s2", "s3"} = {}
    /\ \A t \in LoopSlots : loopTasks[t].session \notin {"zz", "s2", "s3"}
    /\ \A m \in sessSent : m.to \in Range(ValidSlaves("s1"))

\* one_batch was rejected with 400 while a loop was running and a request
\* was being tracked.
C20_Witness ==
    /\ sessLast = [call |-> "one_batch", id |-> "s3", status |-> 400,
                   changed |-> FALSE]
    /\ LoopContinues("s1")
    /\ HasBatch(batches, TrackerRequest)

(***************************************************************************)
(* The workers of a planner input in their input order.                    *)
(***************************************************************************)
DistIndex(s) == CHOOSE i \in DOMAIN DistIds : DistIds[i] = s

\* s is served before t under greedy: more credit, or as much and earlier.
GreedyAhead(s, t) ==
    \/ PositiveCredit(s) > PositiveCredit(t)
    \/ PositiveCredit(s) = PositiveCredit(t) /\ DistIndex(s) < DistIndex(t)

GreedyGivenAhead(t) ==
    SumOver(distPlan, {s \in Range(DistIds) : GreedyAhead(s, t)})

(***************************************************************************)
(* C16.  Under the greedy strategy the workers are served by descending    *)
(* credit, ties in input order, and each receives min(credit, what is left *)
(* of the target), a credit below zero counting as zero; so a worker with  *)
(* a positive share has every worker ahead of it at its full credit.       *)
(* Credits {a:7,b:3,c:2} give {a:5,b:0,c:0} for target 5 and               *)
(* {a:7,b:3,c:1} for target 11.                                            *)
(***************************************************************************)
C16_GreedyByDescendingCredit ==
    (distPc = "out" /\ distIn.strategy = "greedy") =>
        /\ \A t \in Range(DistIds) :
              /\ distPlan[t] =
                    Min2(PositiveCredit(t),
                         Max2(0, distIn.round_total - GreedyGivenAhead(t)))
              /\ distPlan[t] > 0 =>
                    \A s \in Range(DistIds) :
                        GreedyAhead(s, t) => distPlan[s] = PositiveCredit(s)
        /\ distIn = DistInput("greedy", 7, 3, 2, 5) =>
              distPlan = DistInput("", 5, 0, 0, 0).charges
        /\ distIn = DistInput("greedy", 7, 3, 2, 11) =>
              distPlan = DistInput("", 7, 3, 1, 0).charges

\* The last worker served gets what is left, the two ahead their credit.
C16_Witness ==
    /\ distPc = "out"
    /\ distIn = DistInput("greedy", 7, 3, 2, 11)
    /\ distPlan = DistInput("", 7, 3, 1, 0).charges

\* The largest-remainder allocation in exact arithmetic.
ExactTotal == SumOver(distIn.charges, Range(DistIds))

ExactFloor(s) == (distIn.charges[s] * distIn.round_total) \div ExactTotal

ExactFrac(s) == (distIn.charges[s] * distIn.round_total) % ExactTotal

ExactLeft ==
    distIn.round_total
      - SumOver([s \in Range(DistIds) |-> ExactFloor(s)], Range(DistIds))

\* s comes before t for an extra unit: larger fractional part, or an equal
\* one and earlier in the input.
FracAhead(s, t) ==
    \/ ExactFrac(s) > ExactFrac(t)
    \/ ExactFrac(s) = ExactFrac(t) /\ DistIndex(s) < DistIndex(t)

GetsExtra(t) ==
    Cardinality({s \in Range(DistIds) : FracAhead(s, t)}) < ExactLeft

(***************************************************************************)
(* C17.  Under the balanced strategy, for credits >= 0 and a target        *)
(* between 1 and the sum of the credits, each worker receives              *)
(* floor(credit*target/sum_credits), plus one for the workers with the     *)
(* largest fractional parts, ties in input order, and the total is the     *)
(* target.  This is the claim as stated; the code compares the fractional  *)
(* parts as doubles, and equal fractions may round differently.            *)
(***************************************************************************)
C17_BalancedLargestRemainder ==
    (/\ distPc = "out"
     /\ distIn.strategy = "balanced"
     /\ \A s \in Range(DistIds) : distIn.charges[s] >= 0
     /\ distIn.round_total >= 1
     /\ distIn.round_total <= ExactTotal)
        => /\ \A t \in Range(DistIds) :
                 distPlan[t] = ExactFloor(t) + (IF GetsExtra(t) THEN 1 ELSE 0)
           /\ SumOver(distPlan, Range(DistIds)) = distIn.round_total

(***************************************************************************)
(* pixel_patterns.py.  A change is [x, y, num]: num is FALSE for a change  *)
(* whose x or y int() cannot convert, and then every pattern that reads    *)
(* the coordinates raises.  A pool is a sequence of changes; an ordering   *)
(* is worked out on the indices of the pool, so equal changes stay apart.  *)
(***************************************************************************)
MaxPool == 3

PatternPoints == {<<0, 0>>, <<1, 0>>, <<0, 1>>, <<9, 1>>}

PatternChanges ==
    {[x |-> p[1], y |-> p[2], num |-> TRUE] : p \in PatternPoints}
        \cup {[x |-> 0, y |-> 0, num |-> FALSE]}

IndexSeq(pool) == [i \in 1..Len(pool) |-> i]

\* sorted(..., key=key): ascending, equal keys in their order in idx.
SortedBy(idx, key) == SortDesc(idx, [i \in DOMAIN key |-> 0 - key[i]])

\* sort(key=key, reverse=True): descending, equal keys in their order.
SortedByReverse(idx, key) == SortDesc(idx, key)

\* A key (a, b) of small naturals as one number.
Lex(a, b) == a * 1000 + b

\* sorted(keys) of a dict: the distinct values, ascending.
RECURSIVE Ascending(_)
Ascending(S) ==
    IF S = {} THEN <<>>
    ELSE LET m == CHOOSE m \in S : \A n \in S : m <= n
         IN  <<m>> \o Ascending(S \ {m})

Reversed(seq) == [i \in 1..Len(seq) |-> seq[Len(seq) + 1 - i]]

\* The groups of a defaultdict(list) taken in `order`; group number n
\* (from 0) has its members sorted by `inner`, descending when zig is set
\* and n is odd, or left in insertion order when inner is the empty
\* function.
RECURSIVE GroupsInOrder(_, _, _, _, _, _)
GroupsInOrder(idx, gkey, order, inner, zig, n) ==
    IF order = <<>> THEN <<>>
    ELSE LET InGroup(i) == gkey[i] = Head(order)
             members == SelectSeq(idx, InGroup)
             row == IF DOMAIN inner = {} THEN members
                    ELSE IF zig /\ n % 2 = 1
                    THEN SortedByReverse(members, inner)
                    ELSE SortedBy(members, inner)
         IN  row \o GroupsInOrder(idx, gkey, Tail(order), inner, zig, n + 1)

XKey(pool) == [i \in DOMAIN pool |-> pool[i].x]

YKey(pool) == [i \in DOMAIN pool |-> pool[i].y]

InsertionOrder(pool) == IndexSeq(pool)

\* _line_up: rows by ascending y, each row sorted by x.
line_up(pool) ==
    GroupsInOrder(IndexSeq(pool), YKey(pool),
                  Ascending(Range(YKey(pool))), XKey(pool), FALSE, 0)

line_down(pool) ==
    GroupsInOrder(IndexSeq(pool), YKey(pool),
                  Reversed(Ascending(Range(YKey(pool)))), XKey(pool), FALSE, 0)

line_left(pool) ==
    GroupsInOrder(IndexSeq(pool), XKey(pool),
                  Ascending(Range(XKey(pool))), YKey(pool), FALSE, 0)

line_right(pool) ==
    GroupsInOrder(IndexSeq(pool), XKey(pool),
                  Reversed(Ascending(Range(XKey(pool)))), YKey(pool), FALSE, 0)

zigzag(pool) ==
    GroupsInOrder(IndexSeq(pool), YKey(pool),
                  Ascending(Range(YKey(pool))), XKey(pool), TRUE, 0)

diagonal(pool) ==
    SortedBy(IndexSeq(pool),
             [i \in DOMAIN pool |-> Lex(pool[i].x + pool[i].y, pool[i].x)])

diagonal_sweep(pool) ==
    LET s == [i \in DOMAIN pool |-> pool[i].x + pool[i].y]
    IN  GroupsInOrder(IndexSeq(pool), s, Ascending(Range(s)), XKey(pool),
                      FALSE, 0)

\* Sections of 8 by 8, by section row then section column; the members of
\* a section stay in insertion order.
sweep(pool) ==
    LET sec == [i \in DOMAIN pool |->
                   Lex(pool[i].y \div 8, pool[i].x \div 8)]
    IN  GroupsInOrder(IndexSeq(pool), sec, Ascending(Range(sec)), EmptyFcn,
                      FALSE, 0)

\* _bbox
bbox(pool) ==
    [min_x |-> CHOOSE v \in Range(XKey(pool)) : \A w \in Range(XKey(pool)) : v <= w,
     max_x |-> CHOOSE v \in Range(XKey(pool)) : \A w \in Range(XKey(pool)) : v >= w,
     min_y |-> CHOOSE v \in Range(YKey(pool)) : \A w \in Range(YKey(pool)) : v <= w,
     max_y |-> CHOOSE v \in Range(YKey(pool)) : \A w \in Range(YKey(pool)) : v >= w]

\* min(x - min_x, max_x - x, y - min_y, max_y - y)
EdgeDistance(c, b) ==
    Min2(Min2(c.x - b.min_x, b.max_x - c.x), Min2(c.y - b.min_y, b.max_y - c.y))

borders(pool) ==
    SortedBy(IndexSeq(pool),
             [i \in DOMAIN pool |-> EdgeDistance(pool[i], bbox(pool))])

\* The four quadrants about the centre of the bounding box (x <= cx is
\* 2x <= min_x + max_x), then one change of each quadrant in turn.
QuadrantOf(c, b) ==
    LET left == 2 * c.x <= b.min_x + b.max_x
        top  == 2 * c.y <= b.min_y + b.max_y
    IN  IF left /\ top THEN 0 ELSE IF top THEN 1 ELSE IF left THEN 2 ELSE 3

RECURSIVE QuadrantTurns(_, _)
QuadrantTurns(quads, round) ==
    IF \A q \in DOMAIN quads : Len(quads[q]) < round THEN <<>>
    ELSE LET At(q) == IF Len(quads[q]) >= round THEN <<quads[q][round]>>
                      ELSE <<>>
         IN  At(1) \o At(2) \o At(3) \o At(4) \o QuadrantTurns(quads, round + 1)

quadrant(pool) ==
    LET Quad(q) == LET InQuad(i) == QuadrantOf(pool[i], bbox(pool)) = q
                   IN  SelectSeq(IndexSeq(pool), InQuad)
    IN  QuadrantTurns(<<Quad(0), Quad(1), Quad(2), Quad(3)>>, 1)

\* Distances are compared by their squares, with coordinates doubled so
\* that the centre of the bounding box is a whole number: math.hypot of
\* distinct squares of this size gives distinct doubles.
Sq4(c, px2, py2) ==
    (2 * c.x - px2) * (2 * c.x - px2) + (2 * c.y - py2) * (2 * c.y - py2)

center(pool) ==
    LET b == bbox(pool)
    IN  SortedBy(IndexSeq(pool),
                 [i \in DOMAIN pool |->
                     Sq4(pool[i], b.min_x + b.max_x, b.min_y + b.max_y)])

\* seed = random.choice(changes)
cluster(pool, seed) ==
    SortedBy(IndexSeq(pool),
             [i \in DOMAIN pool |->
                 Sq4(pool[i], 2 * pool[seed].x, 2 * pool[seed].y)])

corners(pool) ==
    LET b == bbox(pool)
        Nearest(c) ==
            Min2(Min2(Sq4(c, 2 * b.min_x, 2 * b.min_y),
                      Sq4(c, 2 * b.max_x, 2 * b.min_y)),
                 Min2(Sq4(c, 2 * b.min_x, 2 * b.max_y),
                      Sq4(c, 2 * b.max_x, 2 * b.max_y)))
    IN  SortedBy(IndexSeq(pool), [i \in DOMAIN pool |-> Nearest(pool[i])])

\* The anchors <<2*ax, 2*ay, priority>> in the order of the list.
Anchors(b) ==
    << <<2 * b.min_x, 2 * b.min_y, 1>>, <<2 * b.max_x, 2 * b.min_y, 1>>,
       <<2 * b.min_x, 2 * b.max_y, 1>>, <<2 * b.max_x, 2 * b.max_y, 1>>,
       <<b.min_x + b.max_x, b.min_y + b.max_y, 2>>,
       <<b.min_x + b.max_x, 2 * b.min_y, 3>>,
       <<b.min_x + b.max_x, 2 * b.max_y, 3>>,
       <<2 * b.min_x, b.min_y + b.max_y, 3>>,
       <<2 * b.max_x, b.min_y + b.max_y, 3>> >>

\* (best_p, best_d): the first anchor at the least distance.
AnchorKey(c, anchors) ==
    LET d(k) == Sq4(c, anchors[k][1], anchors[k][2])
        best == CHOOSE k \in DOMAIN anchors :
                    \A j \in DOMAIN anchors : d(k) < d(j) \/ (d(k) = d(j) /\ k <= j)
    IN  Lex(anchors[best][3], d(best))

anchor_points(pool) ==
    SortedBy(IndexSeq(pool),
             [i \in DOMAIN pool |-> AnchorKey(pool[i], Anchors(bbox(pool)))])

Dist2(a, b) == (a.x - b.x) * (a.x - b.x) + (a.y - b.y) * (a.y - b.y)

Without1(seq, k) ==
    [j \in 1..(Len(seq) - 1) |-> IF j < k THEN seq[j] ELSE seq[j + 1]]

\* list.remove(v): the position of the first element equal to v.
FirstEqual(pool, idx, i) ==
    CHOOSE k \in DOMAIN idx :
        /\ pool[idx[k]] = pool[i]
        /\ \A j \in 1..(k - 1) : pool[idx[j]] # pool[i]

\* The while loop of _proximity: the first nearest of the remaining.
RECURSIVE ProximityChain(_, _, _)
ProximityChain(pool, out, remaining) ==
    IF remaining = <<>> THEN out
    ELSE LET last == pool[out[Len(out)]]
             k == CHOOSE k \in DOMAIN remaining :
                     \A j \in DOMAIN remaining :
                        \/ Dist2(pool[remaining[k]], last)
                             < Dist2(pool[remaining[j]], last)
                        \/ /\ Dist2(pool[remaining[k]], last)
                                = Dist2(pool[remaining[j]], last)
                           /\ k <= j
         IN  ProximityChain(pool, Append(out, remaining[k]),
                            Without1(remaining, k))

\* start = random.choice(remaining); remaining.remove(start)
proximity(pool, seed) ==
    LET k == FirstEqual(pool, IndexSeq(pool), seed)
    IN  ProximityChain(pool, <<k>>, Without1(IndexSeq(pool), k))

MinDistToOut(pool, i, out) ==
    CHOOSE d \in {Dist2(pool[i], pool[out[o]]) : o \in DOMAIN out} :
        \A o \in DOMAIN out : d <= Dist2(pool[i], pool[out[o]])

\* The while loop of _scattered: the first of the candidates farthest from
\* what is already out.
RECURSIVE ScatteredChain(_, _, _)
ScatteredChain(pool, out, cand) ==
    IF cand = <<>> THEN out
    ELSE LET k == CHOOSE k \in DOMAIN cand :
                     \A j \in DOMAIN cand :
                        \/ MinDistToOut(pool, cand[k], out)
                             > MinDistToOut(pool, cand[j], out)
                        \/ /\ MinDistToOut(pool, cand[k], out)
                                = MinDistToOut(pool, cand[j], out)
                           /\ k <= j
         IN  ScatteredChain(pool, Append(out, cand[k]), Without1(cand, k))

\* out.append(cand.pop(random.randrange(len(cand))))
scattered(pool, seed) ==
    ScatteredChain(pool, <<seed>>, Without1(IndexSeq(pool), seed))

\* The order of math.atan2(dy, dx) on vectors from the centre: below the
\* x axis, then angle 0, then above the x axis, then angle pi; within the
\* open half planes by the sign of the cross product.
AngleHalf(v) ==
    IF v[2] < 0 THEN 0
    ELSE IF v[2] > 0 THEN 2
    ELSE IF v[1] >= 0 THEN 1 ELSE 3

AngleLess(v, w) ==
    \/ AngleHalf(v) < AngleHalf(w)
    \/ /\ AngleHalf(v) = AngleHalf(w)
       /\ AngleHalf(v) \in {0, 2}
       /\ v[1] * w[2] - v[2] * w[1] > 0

\* Sorted by (round(r, 3), ang); clockwise False negates the angle.  Radii
\* of distinct squares of this size differ by more than 0.001.
spiral_like(pool, clockwise) ==
    LET b == bbox(pool)
        vec == [i \in DOMAIN pool |->
                   <<2 * pool[i].x - (b.min_x + b.max_x),
                     2 * pool[i].y - (b.min_y + b.max_y)>>]
        rank == [i \in DOMAIN pool |->
                    Cardinality({j \in DOMAIN pool :
                        IF clockwise = "False" THEN AngleLess(vec[i], vec[j])
                        ELSE AngleLess(vec[j], vec[i])})]
    IN  SortedBy(IndexSeq(pool),
                 [i \in DOMAIN pool |->
                     Lex(Sq4(pool[i], b.min_x + b.max_x, b.min_y + b.max_y),
                         rank[i])])

\* The rank of abs(y - sin(nx * pi * 2) * 10) among the doubles the
\* coordinates of PatternPoints produce, nx = dx / width: sin(0) is 0,
\* sin(2 pi) is -2.4e-16 and sin(2 pi / 9) is 0.64.
WaveRank(dx, width, y) ==
    IF dx = 0 THEN 2 * y
    ELSE IF dx = width THEN 2 * y + 1
    ELSE 5 - y

wave(pool) ==
    LET b == bbox(pool)
        width == Max2(1, b.max_x - b.min_x)
    IN  SortedBy(IndexSeq(pool),
                 [i \in DOMAIN pool |->
                     Lex(WaveRank(pool[i].x - b.min_x, width, pool[i].y),
                         pool[i].x)])

PatternNames ==
    {"lineUp", "lineDown", "lineLeft", "lineRight", "center", "borders",
     "spiral", "spiralClockwise", "spiralCounterClockwise", "zigzag",
     "diagonal", "cluster", "wave", "corners", "sweep", "priority",
     "proximity", "quadrant", "scattered", "snake", "diagonalSweep",
     "biasedRandom", "anchorPoints", "random"}

\* The orders a random.shuffle, or a sort on keys with a random term, may
\* leave n elements in.
Shuffles(n) ==
    {f \in [1..n -> 1..n] : \A i, j \in 1..n : f[i] = f[j] => i = j}

\* The patterns whose order is drawn: random.shuffle, and the sorts of
\* _priority and _biased_random, whose keys have a random term.
Shuffled == {"priority", "biasedRandom", "random"}

Seeded == {"cluster", "proximity", "scattered"}

\* int(c['x']) or int(c['y']) raises in every pattern that reads them;
\* _proximity and _scattered read none when the pool has one change.
Raises(pattern, pool) ==
    /\ pattern \in PatternNames \ {"random"}
    /\ \E i \in DOMAIN pool : ~pool[i].num
    /\ ~(pattern \in {"proximity", "scattered"} /\ Len(pool) = 1)

\* The ordering of the named pattern, on the indices of the pool.
Ordered(pattern, pool, shuffle, seed) ==
    IF pattern \notin PatternNames \/ pattern \in Shuffled
          \/ Raises(pattern, pool)
    THEN shuffle
    ELSE CASE pattern = "lineUp" -> line_up(pool)
           [] pattern = "lineDown" -> line_down(pool)
           [] pattern = "lineLeft" -> line_left(pool)
           [] pattern = "lineRight" -> line_right(pool)
           [] pattern = "center" -> center(pool)
           [] pattern = "borders" -> borders(pool)
           [] pattern = "spiral" -> spiral_like(pool, "None")
           [] pattern = "spiralClockwise" -> spiral_like(pool, "True")
           [] pattern = "spiralCounterClockwise" -> spiral_like(pool, "False")
           [] pattern = "zigzag" -> zigzag(pool)
           [] pattern = "diagonal" -> diagonal(pool)
           [] pattern = "cluster" -> cluster(pool, seed)
           [] pattern = "wave" -> wave(pool)
           [] pattern = "corners" -> corners(pool)
           [] pattern = "sweep" -> sweep(pool)
           [] pattern = "proximity" -> proximity(pool, seed)
           [] pattern = "quadrant" -> quadrant(pool)
           [] pattern = "scattered" -> scattered(pool, seed)
           [] pattern = "snake" -> zigzag(pool)
           [] pattern = "diagonalSweep" -> diagonal_sweep(pool)
           [] pattern = "anchorPoints" -> anchor_points(pool)

TakeFirstOnly(ordered, count) == SubSeq(ordered, 1, Min2(1, Len(ordered)))

\* ordered[:count]
TakeFirst(ordered, count) == SubSeq(ordered, 1, Min2(count, Len(ordered)))

select_pixels_by_pattern(pattern, changes, count, shuffle, seed) ==
    IF changes = <<>> \/ count <= 0 THEN <<>>
    ELSE LET ordered == Ordered(pattern, changes, shuffle, seed)
         IN  TakeFirst([k \in DOMAIN ordered |-> changes[ordered[k]]], count)

(***************************************************************************)
(* SpecPattern: select_pixels_by_pattern on every pattern name and an      *)
(* unknown one, every pool of one to MaxPool changes and every count from  *)
(* 1 to one more than MaxPool, with every outcome of the random draws.     *)
(***************************************************************************)
Pools == UNION {[1..n -> PatternChanges] : n \in 1..MaxPool}

InitPattern ==
    /\ patIn \in [pattern : PatternNames \cup {"unknown"},
                  changes : Pools,
                  count : 1..(MaxPool + 1)]
    /\ patOut = <<>>
    /\ patPc = "in"
    /\ TrackerIdle
    /\ LockIdle
    /\ DistIdle
    /\ FavIdle
    /\ RoundIdle
    /\ SessIdle
    /\ PreviewIdle
    /\ ConnIdle
    /\ StepIdle

\* The draws the call can make: a shuffle where the order is drawn, a
\* seed where one change is picked at random.
DrawsShuffle(pattern, pool) ==
    pattern \notin PatternNames \/ pattern \in Shuffled \/ Raises(pattern, pool)

PatSelect ==
    /\ patPc = "in"
    /\ \E shuffle \in (IF DrawsShuffle(patIn.pattern, patIn.changes)
                       THEN Shuffles(Len(patIn.changes))
                       ELSE {IndexSeq(patIn.changes)}),
          seed \in (IF patIn.pattern \in Seeded
                    THEN DOMAIN patIn.changes ELSE {1}) :
          patOut' = select_pixels_by_pattern(patIn.pattern, patIn.changes,
                                             patIn.count, shuffle, seed)
    /\ patPc' = "out"
    /\ UNCHANGED <<patIn, notPat>>

NextPattern == PatSelect

SpecPattern == InitPattern /\ [][NextPattern]_vars

CountIn(seq, c) == Cardinality({i \in DOMAIN seq : seq[i] = c})

(***************************************************************************)
(* C18.  For every pattern name, known or not, every non-empty pool and    *)
(* every count n >= 1, select_pixels_by_pattern returns min(n, |pool|)     *)
(* changes, none more often than it occurs in the pool; with n >= |pool|   *)
(* the result is a permutation of the pool.                                *)
(***************************************************************************)
C18_PrefixOfPermutation ==
    patPc = "out" =>
        /\ Len(patOut) = Min2(patIn.count, Len(patIn.changes))
        /\ \A c \in Range(patOut) :
              CountIn(patOut, c) <= CountIn(patIn.changes, c)
        /\ patIn.count >= Len(patIn.changes) =>
              \A c \in Range(patIn.changes) :
                 CountIn(patOut, c) = CountIn(patIn.changes, c)

\* proximity on a pool that holds the same change twice and another one,
\* cut to two.
C18_Witness ==
    /\ patPc = "out"
    /\ patIn.pattern = "proximity"
    /\ Len(patIn.changes) = 3
    /\ patIn.changes[1] = patIn.changes[3]
    /\ patIn.changes[1] # patIn.changes[2]
    /\ \A i \in DOMAIN patIn.changes : patIn.changes[i].num
    /\ patIn.count = 2
    /\ Len(patOut) = 2

(***************************************************************************)
(* C19.  select_pixels_by_pattern('lineUp', pool, |pool|) is a permutation *)
(* of the pool with the rows in ascending y and, within a row, the changes *)
(* in ascending x.                                                         *)
(***************************************************************************)
C19_LineUpRowsAscending ==
    (/\ patPc = "out"
     /\ patIn.pattern = "lineUp"
     /\ patIn.count = Len(patIn.changes)
     /\ \A i \in DOMAIN patIn.changes : patIn.changes[i].num)
        => /\ Len(patOut) = Len(patIn.changes)
           /\ \A c \in Range(patIn.changes) :
                 CountIn(patOut, c) = CountIn(patIn.changes, c)
           /\ \A i, j \in DOMAIN patOut :
                 i < j => \/ patOut[i].y < patOut[j].y
                          \/ /\ patOut[i].y = patOut[j].y
                             /\ patOut[i].x <= patOut[j].x

\* Three changes in two rows, given out of order.
C19_Witness ==
    /\ patPc = "out"
    /\ patIn.pattern = "lineUp"
    /\ patIn.count = 3
    /\ patIn.changes = << [x |-> 9, y |-> 1, num |-> TRUE],
                          [x |-> 1, y |-> 0, num |-> TRUE],
                          [x |-> 0, y |-> 0, num |-> TRUE] >>
    /\ patOut = << [x |-> 0, y |-> 0, num |-> TRUE],
                   [x |-> 1, y |-> 0, num |-> TRUE],
                   [x |-> 9, y |-> 1, num |-> TRUE] >>

\* The assignment keys of the batch a paintBatch message carries.
KeysOfBatch(m) ==
    {k \in DOMAIN RoundAssignments : k[2] = PayloadKey(m.payload)}

(***************************************************************************)
(* C21.  When a failed batch was resent to a different worker, the         *)
(* paint_result of that worker is matched to the batch's assignment: the   *)
(* reply leaves the assignment ok or failed.  This is the claim as stated; *)
(* the assignment stays under the first worker's key and mark looks it up  *)
(* under the replying worker's.                                            *)
(***************************************************************************)
C21_ResentReplyMatched ==
    [][\A m \in rndInflight :
          m \notin rndInflight' =>
             \A k \in KeysOfBatch(m) :
                k[1] # m.to =>
                   RoundAssignments'[k].status \in {"ok", "failed"}]_vars

(***************************************************************************)
(* SpecChurn: the iteration of SpecRound with workers that disconnect      *)
(* while the round runs or answer a paintBatch more than once.             *)
(***************************************************************************)

\* disconnect_slave(s), from the worker's closed socket or from a send that
\* raised: the connection and the worker record are dropped and the worker
\* answers nothing more.  cleanup_disconnected_slave leaves the batch
\* tracker alone, and current_valid_slaves was taken when the iteration
\* began.
RndDisconnect(s) ==
    /\ rndPc \in {"dispatch", "wait", "retry"}
    /\ s \notin rndGone
    /\ rndGone' = rndGone \cup {s}
    /\ rndTicked' = FALSE
    /\ rndInflight' = {m \in rndInflight : m.to # s}
    /\ UNCHANGED <<roundCfg, rndPc, rndEnded, rndQueue, rndSent, rndFails,
                   rndIdx, rndLocked, rndAbandoned, batches,
                   recently_repaired, notRound>>

\* _handle_paint_result_message for a paint_result a connected worker sends
\* again, for a paintBatch it has answered before: the handler runs on every
\* message the socket delivers and keeps no record of the answered ones.
\* The attempts counters are capped at MaxAttempts.
RndDuplicateResult ==
    \E i \in 1..Len(rndSent), ok \in BOOLEAN :
        LET m == [to |-> rndSent[i].to, payload |-> rndSent[i].payload]
        IN  /\ rndPc \in {"dispatch", "wait", "retry"}
            /\ m.to \notin rndGone
            /\ m \notin rndInflight
            /\ \A k \in DOMAIN RoundAssignments :
                  RoundAssignments[k].attempts < MaxAttempts
            /\ batches' = TrackerMark(batches, TrackerRequest, m.to,
                                      m.payload.tileX, m.payload.tileY,
                                      m.payload.coords, ok)
            /\ recently_repaired' =
                  IF ok THEN MarkRecentRepairs(recently_repaired,
                                 m.payload.coords, now, RECENT_LOCK_SECONDS)
                  ELSE recently_repaired
            /\ UNCHANGED <<roundCfg, rndPc, rndEnded, rndQueue, rndSent,
                           rndInflight, rndFails, rndIdx, rndLocked,
                           rndAbandoned, goneVars, notRound>>

NextChurn ==
    \/ NextRound
    \/ \E s \in Range(RoundSlaves) : RndDisconnect(s)

\* The rounds of the session loop that start with an empty lockout table.
InitChurn ==
    /\ InitRound
    /\ roundCfg.mode = "loop"
    /\ recently_repaired = EmptyFcn

SpecChurn == InitChurn /\ [][NextChurn]_vars

NextDup ==
    \/ NextRound
    \/ RndDuplicateResult

\* The rounds of InitChurn that take pixelsPerBatch pixels by the greedy
\* strategy.
InitDup ==
    /\ InitChurn
    /\ ~roundCfg.spend_all
    /\ roundCfg.strategy = "greedy"

SpecDup == InitDup /\ [][NextDup]_vars

\* The assignments of disconnected workers that are pending and were never
\* retried.
HeldByGone ==
    {k \in DOMAIN RoundAssignments :
        /\ k[1] \in rndGone
        /\ RoundAssignments[k].status = "pending"
        /\ RoundAssignments[k].attempts = 0}

(***************************************************************************)
(* C22.  A batch whose worker disconnected during the round is treated as  *)
(* failed and resent by the retry loop: no turn of the retry loop passes   *)
(* over it and leaves it pending and never retried.  This is the claim as  *)
(* stated; nothing marks the assignment of a disconnected worker failed.   *)
(***************************************************************************)
C22_GoneWorkerResent == rndTicked => HeldByGone = {}

\* The status of every assignment before and after a step is one of the
\* listed pairs, or the same.
StatusMoves(allowed) ==
    \A k \in DOMAIN RoundAssignments :
        k \in DOMAIN RoundAssignments' =>
            \/ RoundAssignments'[k].status = RoundAssignments[k].status
            \/ <<RoundAssignments[k].status, RoundAssignments'[k].status>>
                  \in allowed

(***************************************************************************)
(* C23.  An assignment's status changes only from pending to ok, from      *)
(* pending to failed and from failed to pending; an ok assignment is not   *)
(* changed by a later or duplicate paint_result.  This is the claim as     *)
(* stated; mark writes the status whatever it was.                         *)
(***************************************************************************)
C23_StatusMoves ==
    [][StatusMoves({<<"pending", "ok">>, <<"pending", "failed">>,
                    <<"failed", "pending">>})]_vars

\* The orchestrate_loop tasks of a session that create_task has created and
\* that have not returned.
ActiveLoops(id) ==
    {t \in LoopSlots : /\ loopTasks[t].session = id
                       /\ loopTasks[t].pc \notin {"none", "starting", "exited"}}

(***************************************************************************)
(* C24.  Whatever start_session and stop_session calls are made on a       *)
(* session id, at most one orchestration loop task of that session is      *)
(* active at any time.  This is the claim as stated; every accepted        *)
(* start_session creates a task, whether or not one is running.            *)
(***************************************************************************)
C24_OneLoopPerSession ==
    \A id \in SessionIds : Cardinality(ActiveLoops(id)) <= 1

\* The tile assignments of the current request.
SessAssigned(n) ==
    /\ HasBatch(batches, TrackerRequest)
    /\ <<"a", PayloadKey(TilePayload(n))>>
          \in DOMAIN batches[TrackerRequest].assignments

\* Task t is the session's only loop and sleeps between the first and the
\* second tile of its dispatch.
PacingSleep(t) ==
    /\ loopTasks[t].pc = "dispatch"
    /\ loopTasks[t].left = 1
    /\ LiveTasks(loopTasks[t].session) = {t}
    /\ SessAssigned(2)
    /\ ~SessAssigned(1)

(***************************************************************************)
(* C25.  Once stop_session has cleared the running flag, the loop sends no *)
(* paintBatch after a sleep that ended after the stop: a loop that finds   *)
(* the flag cleared when its pacing sleep ends does not send the next      *)
(* tile.  This is the claim as stated; the flag is read at the head of the *)
(* while loop only.                                                        *)
(***************************************************************************)
C25_NoSendAfterStop ==
    [][\A t \in LoopSlots :
          (PacingSleep(t) /\ FlagCleared(loopTasks[t].session))
             => ~SessAssigned(1)']_vars

(***************************************************************************)
(* SpecPreview: the previews workers send, inside a telemetry message or   *)
(* as a preview_data message (endpoints.py).  Two workers are connected    *)
(* and at most one of them is the favorite.  The clock advances before     *)
(* every message, so every timestamp read is later than the ones before.   *)
(***************************************************************************)
PreviewSlaves == {"a", "b"}

\* The elements a changes list is made of: a dict with its keys, or a value
\* that is not a dict.
DetailedChange == [dict |-> TRUE, keys |-> {"x", "y"}]

SummaryChange == [dict |-> TRUE, keys |-> {"count"}]

PlainChange == [dict |-> FALSE, keys |-> {}]

\* The changes lists of the previews that arrive.
PreviewChanges ==
    { <<>>, <<DetailedChange>>, <<SummaryChange>>, <<PlainChange>>,
      <<SummaryChange, DetailedChange>> }

\* `existing.get('preview_data') or {}`: no preview stored.
EmptyPreview == [id |-> 0, changes |-> <<>>]

\* _changes_are_detailed
changes_are_detailed(changes) ==
    /\ Len(changes) > 0
    /\ changes[1].dict
    /\ "x" \in changes[1].keys

StoredPreview(telem, w) ==
    IF "preview_data" \in DOMAIN telem[w] THEN telem[w]["preview_data"]
    ELSE EmptyPreview

\* `if new_good or (not old_good)` of _handle_telemetry_message
TelemetryReplaces(new_pd, old_pd) ==
    \/ changes_are_detailed(new_pd.changes)
    \/ ~changes_are_detailed(old_pd.changes)

InitPreview ==
    /\ connected_slaves = <<"a", "b">>
    /\ is_favorite \in {f \in [PreviewSlaves -> BOOLEAN] : ~(f["a"] /\ f["b"])}
    /\ telemetry = [w \in PreviewSlaves |-> EmptyFcn]
    /\ last_preview_timestamp = EmptyFcn
    /\ pvLast = NoPreviewMsg
    /\ now = 1
    /\ recently_repaired = EmptyFcn
    /\ lockMarks = EmptyFcn
    /\ lockAged = {}
    /\ lockQuery = NoQuery
    /\ favReq = [q \in FavRequests |-> IdleReq]
    /\ favDisc = [s \in FavSlaves |-> IdleDisc]
    /\ TrackerIdle
    /\ DistIdle
    /\ RoundIdle
    /\ SessIdle
    /\ PatIdle
    /\ ConnIdle
    /\ StepIdle

notPreview == <<trackerVars, distVars, favVars, roundVars, sessVars, patVars,
                connVars, stepVars, lockMarks, lockAged, lockQuery>>

\* _handle_telemetry_message for a telemetry that carries a preview.
PvTelemetry ==
    \E w \in PreviewSlaves, changes \in PreviewChanges :
        LET new_pd == [id |-> now + 1, changes |-> changes]
            old_pd == StoredPreview(telemetry, w)
        IN  /\ now < MaxTime
            /\ now' = now + 1
            /\ telemetry' =
                  IF TelemetryReplaces(new_pd, old_pd)
                  THEN [telemetry EXCEPT ![w] =
                           [k \in {"preview_data"} |-> new_pd]]
                  ELSE telemetry
            /\ pvLast' = [type |-> "telemetry", slave |-> w, new |-> new_pd,
                          old |-> old_pd]
            /\ UNCHANGED <<last_preview_timestamp, recently_repaired,
                           notPreview>>

\* _handle_preview_data_message: only the favorite's message is handled.
PvPreviewData ==
    \E w \in PreviewSlaves, changes \in PreviewChanges :
        LET new_pd == [id |-> now + 1, changes |-> changes]
            old_pd == StoredPreview(telemetry, w)
        IN  /\ now < MaxTime
            /\ now' = now + 1
            /\ IF is_favorite[w]
               THEN /\ recently_repaired' =
                          AgeRecentRepairs(recently_repaired, now + 1)
                    /\ telemetry' = [telemetry EXCEPT ![w] =
                                        [k \in {"preview_data"} |-> new_pd]]
                    /\ last_preview_timestamp' =
                          (w :> (now + 1)) @@ last_preview_timestamp
               ELSE UNCHANGED <<recently_repaired, telemetry,
                                last_preview_timestamp>>
            /\ pvLast' = [type |-> "preview_data", slave |-> w,
                          new |-> new_pd, old |-> old_pd]
            /\ UNCHANGED notPreview

NextPreview ==
    \/ PvTelemetry
    \/ PvPreviewData

SpecPreview == InitPreview /\ [][NextPreview]_vars

\* The last message replaced the stored preview of its worker.
PreviewReplaced ==
    /\ pvLast.type # ""
    /\ StoredPreview(telemetry, pvLast.slave) = pvLast.new

(***************************************************************************)
(* C27.  Every preview that arrives, in a telemetry message or as a        *)
(* preview_data message, replaces the stored preview if and only if it is  *)
(* detailed or the stored one is not.  This is the claim as stated; the    *)
(* preview_data handler stores by the favorite flag alone.                 *)
(***************************************************************************)
C27_ReplacedIffDetailed ==
    pvLast.type # ""
       => (PreviewReplaced <=> TelemetryReplaces(pvLast.new, pvLast.old))

\* The timestamp of worker w went up in this step.
TimestampRose(w) ==
    /\ w \in DOMAIN last_preview_timestamp'
    /\ IF w \in DOMAIN last_preview_timestamp
       THEN last_preview_timestamp'[w] > last_preview_timestamp[w]
       ELSE TRUE

(***************************************************************************)
(* C28.  last_preview_timestamp[w] increases exactly when a message        *)
(* replaces the stored preview of w while w is the favorite.  This is the  *)
(* claim as stated; a preview replaced by a telemetry message leaves the   *)
(* timestamp alone.                                                        *)
(***************************************************************************)
C28_TimestampIffReplaced ==
    [][\A w \in PreviewSlaves :
          TimestampRose(w)
             <=> (pvLast'.slave = w /\ PreviewReplaced' /\ is_favorite[w])]_vars

(***************************************************************************)
(* SpecConn: the /ws/slave connections of two worker ids.  A worker may    *)
(* connect again under its id while the old connection is registered;      *)
(* connect_slave then closes the old socket, whose handler ends in         *)
(* disconnect_slave.  The actions are the stretches of the handler between *)
(* its awaits.  Guard uploads are stored and cleared by endpoints.py.      *)
(***************************************************************************)
MaxConnections == 3

ConnSlaves == {"a", "b"}

ConnIds == 1..Len(rcConns)

\* A new connection: websocket_slave_endpoint runs to `await accept()`.
NewConn(s) ==
    [id |-> s, pc |-> "accept", closed |-> FALSE, first |-> FALSE,
     stored |-> FALSE, was_favorite |-> FALSE]

\* The value upload_guard stored, as the endpoints module sees it.
UploadStored == last_guard_upload["endpoints"] # "None"

\* `if last_guard_upload:` in connection_manager.py reads the name that
\* module imported.
ManagerSeesUpload == last_guard_upload["connection_manager"] # "None"

\* The messages connect_slave and disconnect_slave send to a favorite.
FavoriteMsgs(types) ==
    types \cup (IF ManagerSeesUpload THEN {"guardData"} ELSE {})

notConn == <<trackerVars, lockVars, distVars, favReq, favDisc, roundVars,
             sessVars, patVars, previewVars, stepVars>>

RcOpen ==
    \E s \in ConnSlaves :
        /\ Len(rcConns) < MaxConnections
        /\ rcConns' = Append(rcConns, NewConn(s))
        /\ UNCHANGED <<slave_connections, last_guard_upload, rcElect,
                       connected_slaves, is_favorite, notConn>>

\* connect_slave from `slave_connections[slave_id] = websocket` to its first
\* await: a new id gets its record, the first one as favorite.
Register(c) ==
    LET s == rcConns[c].id
    IN  /\ slave_connections' = (s :> c) @@ slave_connections
        /\ IF s \notin Connected
           THEN /\ connected_slaves' = Append(connected_slaves, s)
                /\ is_favorite' =
                      [x \in Connected \cup {s} |->
                          IF x = s THEN Len(connected_slaves) = 0
                          ELSE is_favorite[x]]
                /\ rcConns' = [rcConns EXCEPT
                                 ![c].pc = "greet",
                                 ![c].first = (Len(connected_slaves) = 0),
                                 ![c].stored = UploadStored]
           ELSE /\ UNCHANGED <<connected_slaves, is_favorite>>
                /\ rcConns' = [rcConns EXCEPT ![c].pc = "greet"]

\* accept() returned.  A registered id has its old socket closed, which is
\* an await; else the registration follows at once.
RcAccepted(c) ==
    /\ rcConns[c].pc = "accept"
    /\ IF rcConns[c].id \in DOMAIN slave_connections
       THEN /\ rcConns' = [rcConns EXCEPT
                   ![c].pc = "closing",
                   ![slave_connections[rcConns[c].id]].closed = TRUE]
            /\ UNCHANGED <<slave_connections, connected_slaves, is_favorite>>
       ELSE Register(c)
    /\ UNCHANGED <<last_guard_upload, rcElect, notConn>>

\* close() of the old socket returned.
RcRegister(c) ==
    /\ rcConns[c].pc = "closing"
    /\ Register(c)
    /\ UNCHANGED <<last_guard_upload, rcElect, notConn>>

\* disconnect_slave up to its first await: the handle under the id and the
\* worker record are deleted, whichever connection they belong to.
Disconnect(c) ==
    LET s == rcConns[c].id
    IN  /\ slave_connections' =
              [x \in DOMAIN slave_connections \ {s} |-> slave_connections[x]]
        /\ connected_slaves' = Without(connected_slaves, s)
        /\ is_favorite' = DropFlag(is_favorite, s)
        /\ rcConns' = [rcConns EXCEPT
                         ![c].pc = "disc",
                         ![c].was_favorite =
                            IF s \in Connected THEN is_favorite[s] ELSE FALSE]

\* The rest of connect_slave and the head of the endpoint: the first
\* worker, and a favorite that connects again, get guardConfig and, if
\* last_guard_upload is set, guardData; then the receive loop starts.  The
\* endpoint's read of connected_slaves[slave_id] raises if the record is
\* gone, which ends the handler in disconnect_slave.
RcGreet(c) ==
    LET s == rcConns[c].id
        reached == s \in DOMAIN slave_connections
        sent == IF reached THEN FavoriteMsgs({"guardConfig"}) ELSE {}
    IN  /\ rcConns[c].pc = "greet"
        /\ rcElect' =
              IF rcConns[c].first
              THEN rcElect \cup {[slave |-> s, how |-> "first",
                                  stored |-> rcConns[c].stored /\ UploadStored,
                                  sent |-> sent]}
              ELSE rcElect
        /\ IF s \in Connected
           THEN /\ rcConns' = [rcConns EXCEPT ![c].pc = "open"]
                /\ UNCHANGED <<slave_connections, connected_slaves,
                               is_favorite>>
           ELSE Disconnect(c)
        /\ UNCHANGED <<last_guard_upload, notConn>>

\* receive_text raises, because the socket was closed or the worker went
\* away: the except branch calls disconnect_slave.
RcTerminate(c) ==
    /\ rcConns[c].pc = "open"
    /\ Disconnect(c)
    /\ UNCHANGED <<last_guard_upload, rcElect, notConn>>

\* disconnect_slave after its broadcast: if the favorite left and workers
\* remain, the first of them becomes favorite and is sent setFavorite,
\* guardConfig and, if last_guard_upload is set, guardData.
RcReelect(c) ==
    /\ rcConns[c].pc = "disc"
    /\ rcConns' = [rcConns EXCEPT ![c].pc = "done"]
    /\ IF rcConns[c].was_favorite /\ connected_slaves # <<>>
       THEN LET new_id == Head(connected_slaves)
                reached == new_id \in DOMAIN slave_connections
            IN  /\ is_favorite' = [x \in Connected |-> x = new_id]
                /\ rcElect' = rcElect \cup
                      {[slave |-> new_id, how |-> "reelect",
                        stored |-> UploadStored,
                        sent |-> IF reached
                                 THEN FavoriteMsgs({"setFavorite",
                                                    "guardConfig"})
                                 ELSE {}]}
       ELSE UNCHANGED <<is_favorite, rcElect>>
    /\ UNCHANGED <<slave_connections, connected_slaves, last_guard_upload,
                   notConn>>

\* upload_guard: with a favorite connected, `global last_guard_upload`
\* rebinds the name in the endpoints module.
RcUpload ==
    /\ Favorites # {}
    /\ last_guard_upload' = [last_guard_upload EXCEPT !["endpoints"] = "upload"]
    /\ UNCHANGED <<slave_connections, rcConns, rcElect, connected_slaves,
                   is_favorite, notConn>>

\* guard_clear_state of endpoints.py: the same name is set to None.
RcClear ==
    /\ last_guard_upload' = [last_guard_upload EXCEPT !["endpoints"] = "None"]
    /\ UNCHANGED <<slave_connections, rcConns, rcElect, connected_slaves,
                   is_favorite, notConn>>

InitConn ==
    /\ ConnIdle
    /\ StepIdle
    /\ FavIdle
    /\ TrackerIdle
    /\ LockIdle
    /\ DistIdle
    /\ RoundIdle
    /\ SessIdle
    /\ PatIdle
    /\ PreviewIdle

NextConn ==
    \/ RcOpen
    \/ \E c \in ConnIds : RcAccepted(c)
    \/ \E c \in ConnIds : RcRegister(c)
    \/ \E c \in ConnIds : RcGreet(c)
    \/ \E c \in ConnIds : RcTerminate(c)
    \/ \E c \in ConnIds : RcReelect(c)
    \/ RcUpload
    \/ RcClear

SpecConn == InitConn /\ [][NextConn]_vars

\* The connections made under the id of connection c after it.
LaterConns(c) ==
    {d \in ConnIds : d > c /\ rcConns[d].id = rcConns[c].id}

\* Connection c replaced a registered connection of its id, is in its
\* receive loop and is the last one made under the id.
LiveReplacement(c) ==
    /\ rcConns[c].pc = "open"
    /\ ~rcConns[c].closed
    /\ LaterConns(c) = {}
    /\ \E o \in ConnIds : /\ o < c
                          /\ rcConns[o].id = rcConns[c].id
                          /\ rcConns[o].closed

(***************************************************************************)
(* C26.  When a worker connects again under an id that is registered, the  *)
(* new connection replaces the old one and the worker stays registered:    *)
(* the end of the replaced connection's handler removes neither the worker *)
(* record nor the new connection handle.  This is the claim as stated;     *)
(* disconnect_slave deletes by id.                                         *)
(***************************************************************************)
C26_ReconnectStaysRegistered ==
    \A c \in ConnIds :
        LiveReplacement(c)
           => /\ rcConns[c].id \in Connected
              /\ rcConns[c].id \in DOMAIN slave_connections
              /\ slave_connections[rcConns[c].id] = c

(***************************************************************************)
(* C29.  A worker that becomes favorite by automatic election, as the      *)
(* first worker or after the favorite left, while a guard upload is stored *)
(* and not cleared, is sent guardData with the upload besides guardConfig. *)
(* This is the claim as stated; connection_manager reads its own name      *)
(* last_guard_upload, which upload_guard never sets.                       *)
(***************************************************************************)
C29_ElectedGetsGuardData ==
    \A e \in rcElect :
        (e.stored /\ "guardConfig" \in e.sent) => "guardData" \in e.sent

\* The dispatch is in the pacing delay of send_consolidated: the next tile
\* goes to the worker the last one went to, 5 to 10 seconds later.
PacingDue ==
    /\ rndPc = "dispatch"
    /\ rndQueue # <<>>
    /\ rndSent # <<>>
    /\ Head(rndQueue)[1] = rndSent[Len(rndSent)].to

\* The workers that were sent a paintBatch in this round.
SentWorkers == {rndSent[j].to : j \in 1..Len(rndSent)}

(***************************************************************************)
(* C30.  In a round with batches for two or more workers the first tile of *)
(* every worker is sent without waiting for another worker's pacing        *)
(* delays: while a worker's pacing delay runs, no other worker is still    *)
(* waiting for its first tile.  This is the claim as stated; the workers'  *)
(* queues are sent one after the other.                                    *)
(***************************************************************************)
C30_FirstTilesNotDelayed ==
    PacingDue =>
       \A i \in 1..Len(rndQueue) : rndQueue[i][1] \in SentWorkers

\* The coordinates sent to worker w in the round's first dispatch.
RECURSIVE FirstPixelsTo(_, _)
FirstPixelsTo(w, sent) ==
    IF sent = <<>> THEN 0
    ELSE (IF Head(sent).kind = "first" /\ Head(sent).to = w
          THEN Len(Head(sent).payload.coords) ELSE 0)
         + FirstPixelsTo(w, Tail(sent))

\* The round created its request and its dispatch is over.
Dispatched ==
    /\ HasBatch(batches, TrackerRequest)
    /\ rndPc \in {"wait", "retry", "done"}

\* pick: the changes the round selected.
RoundPick(plan) ==
    Min2(Len(roundCfg.changes) - Cardinality(rndLocked),
         SumOver(plan, Range(RoundSlaves)))

\* The share of the planned workers that come before w in the worker list.
RECURSIVE PlannedBefore(_, _, _)
PlannedBefore(w, ids, plan) ==
    IF ids = <<>> \/ Head(ids) = w THEN 0
    ELSE plan[Head(ids)] + PlannedBefore(w, Tail(ids), plan)

ChargeReports ==
    {[present |-> FALSE, value |-> 0]}
        \cup {[present |-> TRUE, value |-> v] : v \in -1..MaxRoundCredit}

\* int(telemetry.get('remaining_charges') or 0)
remaining_charges(report) ==
    IF report.present THEN report.value ELSE 0

\* The credit the round sizing is said to use.
ClampedCharge(report) == Max2(0, remaining_charges(report))

notCall == <<trackerVars, lockVars, distVars, favVars, roundVars, sessVars,
             patVars, previewVars, connVars, handshake, pauseLog>>

\* Every variable but those of the planning step is idle.
OthersIdle ==
    /\ TrackerIdle
    /\ LockIdle
    /\ DistIdle
    /\ FavIdle
    /\ RoundIdle
    /\ SessIdle
    /\ PatIdle
    /\ PreviewIdle
    /\ ConnIdle
    /\ handshake = NoHandshake
    /\ pauseLog = NoPause

InitSizing ==
    /\ callIn \in [reports : [Range(RoundSlaves) -> ChargeReports],
                   spend_all : BOOLEAN,
                   pixels_per_batch : 1..MaxPixelsPerBatch]
    /\ callOut = <<>>
    /\ callPc = "in"
    /\ OthersIdle

\* charges, total_remaining, desired and the checks that follow them, for
\* a change list that is not empty.
RoundSize(in) ==
    LET charges == [s \in Range(RoundSlaves) |->
                       remaining_charges(in.reports[s])]
        cfg == [charges |-> charges, spend_all |-> in.spend_all,
                pixels_per_batch |-> in.pixels_per_batch]
    IN  [charges |-> charges,
         total_remaining |-> sum_charges(cfg),
         desired |-> Desired(cfg),
         outcome |->
            IF sum_charges(cfg) <= 0 THEN "no_charges"
            ELSE IF Desired(cfg) <= 0 THEN "zero_desired"
            ELSE IF WaitForCharges(in.spend_all, sum_charges(cfg),
                                   in.pixels_per_batch) THEN "wait_charges"
            ELSE "plan"]

SizeRound ==
    /\ callPc = "in"
    /\ callOut' = RoundSize(callIn)
    /\ callPc' = "out"
    /\ UNCHANGED <<callIn, notCall>>

NextSizing == SizeRound

SpecSizing == InitSizing /\ [][NextSizing]_vars

\* The total of the credits as the claim defines them.
ClampedTotal ==
    SumOver([s \in Range(RoundSlaves) |-> ClampedCharge(callIn.reports[s])],
            Range(RoundSlaves))

(***************************************************************************)
(* C32.  For round sizing a worker's credit is max(0, remaining_charges):  *)
(* a negative or missing report adds 0 to the credit total, to the waiting *)
(* test against pixelsPerBatch and to the round size.  This is the claim   *)
(* as stated; the report is converted with int() and not clamped.          *)
(***************************************************************************)
C32_CreditsClamped ==
    callPc = "out" =>
       /\ \A s \in Range(RoundSlaves) :
             callOut.charges[s] = ClampedCharge(callIn.reports[s])
       /\ callOut.total_remaining = ClampedTotal
       /\ (callOut.outcome = "wait_charges")
             <=> (/\ ClampedTotal > 0
                  /\ WaitForCharges(callIn.spend_all, ClampedTotal,
                                    callIn.pixels_per_batch))
       /\ callOut.desired =
             IF callIn.spend_all THEN ClampedTotal
             ELSE Min2(ClampedTotal, callIn.pixels_per_batch)

(***************************************************************************)
(* SpecFilter: from the favorite's stored preview to the changes a round   *)
(* dispatches: filter_changes (the loop) or the same steps inlined in      *)
(* one_batch, pick = min(len(changes), sum(plan)), and the selection by    *)
(* protectionPattern.  The lockout table is empty here; every change       *)
(* carries x, y and expectedColor, and a preview names a pixel once.       *)
(***************************************************************************)
MaxChanges == 2

ChangeTypes == {"missing", "absent", "incorrect", "correct"}

FilterColors == {1, 2}

\* guard_config['excludedColorIds'] and guard_config['preferredColorIds']
ExcludedColorIds == {2}

PreferredColorIds == {1}

\* The previews of n changes: the pixels of one column, listed upwards or
\* downwards, each of any type and colour.
PreviewsOf(n) ==
    {[i \in 1..n |->
        [x |-> 0, y |-> IF rev THEN n - i ELSE i - 1, num |-> TRUE,
         type |-> k[i][1], expectedColor |-> k[i][2]]] :
        k \in [1..n -> ChangeTypes \X FilterColors], rev \in BOOLEAN}

PreviewPools == UNION {PreviewsOf(n) : n \in 0..MaxChanges}

\* Mutant: every type of change is eligible for repair.
AnyType == ChangeTypes

\* c.get('type') in ('missing', 'absent', 'incorrect')
EligibleTypes == {"missing", "absent", "incorrect"}

\* c.get('expectedColor', c.get('color', 0))
exp_color(c) == c.expectedColor

\* prio(c): (0 for missing and incorrect, else 1; 0 for a preferred
\* colour, else 1), as one number.
prio(c, preferred_ids) ==
    Lex(IF c.type \in {"missing", "incorrect"} THEN 0 ELSE 1,
        IF exp_color(c) \in preferred_ids THEN 0 ELSE 1)

filter_changes(changes, cfg) ==
    LET excluded_ids == IF cfg.excludeColor THEN ExcludedColorIds ELSE {}
        preferred_ids == IF cfg.preferColor THEN PreferredColorIds ELSE {}
        Eligible(c) == c.type \in EligibleTypes
        NotExcluded(c) == exp_color(c) \notin excluded_ids
        kept == SelectSeq(SelectSeq(changes, Eligible), NotExcluded)
        order == SortedBy(IndexSeq(kept),
                          [i \in DOMAIN kept |-> prio(kept[i], preferred_ids)])
    IN  [k \in DOMAIN order |-> kept[order[k]]]

InitFilter ==
    /\ callIn \in [changes : PreviewPools,
                   excludeColor : BOOLEAN,
                   preferColor : BOOLEAN,
                   pattern : PatternNames \cup {"unknown"},
                   planned : 1..MaxChanges]
    /\ callOut = <<>>
    /\ callPc = "in"
    /\ OthersIdle

\* One iteration from the preview to the selection: the filter, the pick
\* and select_pixels_by_pattern, with every outcome of its random draws.
\* Every selected change is queued and sent in a paintBatch of its tile.
FilterAndSelect ==
    /\ callPc = "in"
    /\ LET changes == filter_changes(callIn.changes, callIn)
           pick == Min2(Len(changes), callIn.planned)
       IN  \E shuffle \in (IF DrawsShuffle(callIn.pattern, changes)
                           THEN Shuffles(Len(changes))
                           ELSE {IndexSeq(changes)}),
              seed \in (IF callIn.pattern \in Seeded /\ changes # <<>>
                        THEN DOMAIN changes ELSE {1}) :
              callOut' = [changes |-> changes,
                          pick |-> pick,
                          selected |->
                             IF pick <= 0 THEN <<>>
                             ELSE select_pixels_by_pattern(
                                      callIn.pattern, changes, pick,
                                      shuffle, seed)]
    /\ callPc' = "out"
    /\ UNCHANGED <<callIn, notCall>>

NextFilter == FilterAndSelect

SpecFilter == InitFilter /\ [][NextFilter]_vars

\* The changes of the stored preview at the coordinate of a change.
PreviewAt(c) ==
    {d \in Range(callIn.changes) : d.x = c.x /\ d.y = c.y}

(***************************************************************************)
(* C33.  Every coordinate dispatched in a paintBatch comes from a change   *)
(* of the favorite's stored preview whose type is missing, absent or       *)
(* incorrect and, when excludeColor is true, whose expected colour is not  *)
(* in excludedColorIds; changes of type correct are never dispatched.      *)
(***************************************************************************)
C33_DispatchedAreEligible ==
    callPc = "out" =>
        \A i \in DOMAIN callOut.selected :
           /\ PreviewAt(callOut.selected[i]) # {}
           /\ \A d \in PreviewAt(callOut.selected[i]) :
                 /\ d.type \in {"missing", "absent", "incorrect"}
                 /\ d.type # "correct"
                 /\ callIn.excludeColor =>
                       d.expectedColor \notin ExcludedColorIds

\* With excludeColor set, a preview of an incorrect change of an excluded
\* colour and a missing one of another colour: only the latter is sent.
C33_Witness ==
    /\ callPc = "out"
    /\ callIn.excludeColor
    /\ Len(callIn.changes) = 2
    /\ \E d \in Range(callIn.changes) :
          d.type = "incorrect" /\ d.expectedColor \in ExcludedColorIds
    /\ Len(callOut.selected) = 1
    /\ callOut.selected[1].type = "missing"

\* The changes that passed the filter and were left out of the round.
LeftOut ==
    {c \in Range(callOut.changes) : c \notin Range(callOut.selected)}

TypeBucket(c) == IF c.type \in {"missing", "incorrect"} THEN 0 ELSE 1

(***************************************************************************)
(* C34.  When the eligible, unlocked changes outnumber the pick, the       *)
(* changes dispatched respect the filter's priority under every            *)
(* protectionPattern: no absent change is dispatched while a missing or    *)
(* incorrect one is left out, and with preferColor no non-preferred colour *)
(* is dispatched while a preferred one of the same type bucket is left     *)
(* out.  This is the claim as stated; the pattern reorders the whole       *)
(* filtered list before the pick is cut from it.                           *)
(***************************************************************************)
C34_PriorityRespected ==
    (callPc = "out" /\ Len(callOut.changes) > callOut.pick) =>
        \A s \in Range(callOut.selected), l \in LeftOut :
           /\ ~(s.type = "absent" /\ l.type \in {"missing", "incorrect"})
           /\ callIn.preferColor =>
                 ~(/\ TypeBucket(s) = TypeBucket(l)
                   /\ s.expectedColor \notin PreferredColorIds
                   /\ l.expectedColor \in PreferredColorIds)

\* The resends of the assignment with tracker key `key` so far.
RECURSIVE RetrySendsOf(_, _)
RetrySendsOf(key, sent) ==
    IF sent = <<>> THEN 0
    ELSE (IF Head(sent).kind = "retry" /\ PayloadKey(Head(sent).payload) = key
          THEN 1 ELSE 0)
         + RetrySendsOf(key, Tail(sent))

(***************************************************************************)
(* C35.  Within one round each assignment is resent at most maxRetries     *)
(* times: attempts starts at 0, grows by one per processed failure, and a  *)
(* resend is made only while attempts <= maxRetries.  So the resends of an *)
(* assignment number min(attempts, maxRetries) at every moment.            *)
(***************************************************************************)
C35_ResendsWithinMaxRetries ==
    \A k \in DOMAIN RoundAssignments :
       LET resends == RetrySendsOf(k[2], rndSent)
           attempts == RoundAssignments[k].attempts
       IN  /\ attempts >= 0
           /\ resends = Min2(attempts, roundCfg.max_retries)
           /\ resends <= roundCfg.max_retries

\* An assignment that failed once and was resent once, with maxRetries 1:
\* the bound is reached.
C35_Witness ==
    \E k \in DOMAIN RoundAssignments :
       /\ roundCfg.max_retries = 1
       /\ RoundAssignments[k].attempts = 1
       /\ RetrySendsOf(k[2], rndSent) = 1

(***************************************************************************)
(* SpecRetarget: the worker a failed assignment is resent to, for every    *)
(* list of valid workers of one to MaxValid ids (an id may repeat, as it   *)
(* may in session.slave_ids), every credit and every value of idx.         *)
(***************************************************************************)
MaxValid == 3

RetargetIds == {"a", "b", "c"}

ValidLists == UNION {[1..n -> RetargetIds] : n \in 1..MaxValid}

InitRetarget ==
    /\ callIn \in [valid : ValidLists,
                   charges : [RetargetIds -> 0..1],
                   sid : RetargetIds,
                   idx : 0..2]
    /\ callIn.sid \in Range(callIn.valid)
    /\ callOut = <<>>
    /\ callPc = "in"
    /\ OthersIdle

\* candidates, idx = idx + 1 and new_sid = candidates[idx % len(candidates)]
Retarget ==
    /\ callPc = "in"
    /\ LET candidates == CandidatesOf(callIn.valid, callIn.sid, callIn.charges)
           idx == callIn.idx + 1
       IN  callOut' = [candidates |-> candidates,
                       idx |-> idx,
                       new_sid |-> candidates[(idx % Len(candidates)) + 1]]
    /\ callPc' = "out"
    /\ UNCHANGED <<callIn, notCall>>

NextRetarget == Retarget

SpecRetarget == InitRetarget /\ [][NextRetarget]_vars

\* The valid workers other than the one the assignment was sent to.
OtherValid == Range(callIn.valid) \ {callIn.sid}

OtherWithCredit == {x \in OtherValid : callIn.charges[x] > 0}

(***************************************************************************)
(* C36.  The retry target of a failed assignment sent to worker s is one   *)
(* of the valid workers other than s with positive credit if there are     *)
(* any, otherwise one of the valid workers other than s, and is s itself   *)
(* only when s is the only valid worker.                                   *)
(***************************************************************************)
C36_RetryTarget ==
    callPc = "out" =>
        /\ OtherWithCredit # {} => callOut.new_sid \in OtherWithCredit
        /\ (OtherWithCredit = {} /\ OtherValid # {})
              => callOut.new_sid \in OtherValid
        /\ callOut.new_sid = callIn.sid <=> Range(callIn.valid) = {callIn.sid}

\* Three valid workers, the assignment of the first failed, of the other
\* two only the last has credit: it is the target.
C36_Witness ==
    /\ callPc = "out"
    /\ callIn.valid = <<"a", "b", "c">>
    /\ callIn.sid = "a"
    /\ callIn.charges["b"] = 0
    /\ callIn.charges["c"] = 1
    /\ callOut.new_sid = "c"

\* The coordinates sent to worker w in paintBatch messages, resends included.
RECURSIVE PixelsSentTo(_, _)
PixelsSentTo(w, sent) ==
    IF sent = <<>> THEN 0
    ELSE (IF Head(sent).to = w THEN Len(Head(sent).payload.coords) ELSE 0)
         + PixelsSentTo(w, Tail(sent))

(***************************************************************************)
(* C37.  Over a whole round, retry resends included, the coordinates sent  *)
(* to a worker in paintBatch messages never exceed the credit the worker   *)
(* reported when the round was planned.  This is the claim as stated; a    *)
(* resend goes to the next candidate whatever is left of its credit.       *)
(***************************************************************************)
C37_SentWithinCredit ==
    \A w \in Range(RoundSlaves) :
       PixelsSentTo(w, rndSent) <= roundCfg.charges[w]

(***************************************************************************)
(* C38.  If the write in send_to_slave fails, the target worker is removed *)
(* from the connection map and the worker records, the error does not      *)
(* reach the caller, and if that worker was the favorite while others      *)
(* remain connected, one of the remaining workers is favorite when         *)
(* send_to_slave returns.  The step that ends the disconnect_slave run by  *)
(* the failed send is the return of send_to_slave to the request that      *)
(* awaits it.  This is the claim as stated; the worker elected in the      *)
(* call may disconnect before the call returns.                            *)
(***************************************************************************)
C38_FavoriteAfterFailedSend ==
    [][\A q \in FavRequests :
          (/\ favReq[q].pc = "wait"
           /\ favDisc[favReq[q].waitOn].pc # "idle"
           /\ favDisc'[favReq[q].waitOn].pc = "idle"
           /\ favDisc[favReq[q].waitOn].was_favorite
           /\ connected_slaves' # <<>>)
          => /\ favReq[q].waitOn \notin Range(connected_slaves')
             /\ \E s \in Range(connected_slaves') : is_favorite'[s]]_vars

(***************************************************************************)
(* SpecHandshake: the preview handshake that opens an iteration of the     *)
(* session loop and one_batch, with the preview handlers of SpecPreview    *)
(* and workers that disconnect while it polls.  The loop of 20 polls is    *)
(* one of MaxPreviewPolls polls.  A step of the handshake is the code from *)
(* one await to the next; the read of the stored preview follows the last  *)
(* poll without an await.  Once the handshake is over the iteration goes   *)
(* on with the filter, which is not followed here.                         *)
(***************************************************************************)
notHandshake == <<trackerVars, lockVars, distVars, favVars, roundVars,
                  sessVars, patVars, previewVars, connVars, callVars,
                  pauseLog>>

\* next((sid for sid, s in connected_slaves.items() if s.is_favorite), None)
FirstFavorite ==
    LET IsFav(s) == is_favorite[s]
        favs == SelectSeq(connected_slaves, IsFav)
    IN  IF favs = <<>> THEN "" ELSE Head(favs)

\* _last_preview_timestamp.get(fav_id, 0)
TimestampGet(ts, fav_id) == IF fav_id \in DOMAIN ts THEN ts[fav_id] ELSE 0

\* Mutant: the poll takes a timestamp that did not move for a new one.
NotOlder(ts, old_ts) == ts >= old_ts

\* _last_preview_timestamp.get(fav_id, 0) > old_ts
Newer(ts, old_ts) == ts > old_ts

\* fav = connected_slaves.get(fav_id) if fav_id else None, and
\* preview = (fav.telemetry.get('preview_data') if fav ... else None) or {}
PreviewOf(fav_id) ==
    IF fav_id # "" /\ fav_id \in Range(connected_slaves)
    THEN StoredPreview(telemetry, fav_id)
    ELSE EmptyPreview

InitHandshake == InitPreview

\* The iteration looks for the favorite.  With one it keeps old_ts and
\* sends guardControl check; without one it reads the preview at once.
HsStart ==
    /\ handshake.pc = "idle"
    /\ handshake' =
          IF FirstFavorite = ""
          THEN [NoHandshake EXCEPT !.pc = "done",
                                   !.preview = PreviewOf("")]
          ELSE [NoHandshake EXCEPT
                   !.pc = "poll",
                   !.fav_id = FirstFavorite,
                   !.old_ts = TimestampGet(last_preview_timestamp,
                                           FirstFavorite)]
    /\ UNCHANGED notHandshake

\* A sleep of 0.25 s is over: the timestamp is read, and on a newer one or
\* after the last poll the stored preview is read.
HsPoll ==
    /\ handshake.pc = "poll"
    /\ LET ts == TimestampGet(last_preview_timestamp, handshake.fav_id)
           polls == handshake.polls + 1
       IN  handshake' =
              IF Newer(ts, handshake.old_ts) \/ polls >= MaxPreviewPolls
              THEN [handshake EXCEPT !.pc = "done", !.polls = polls,
                                     !.new_ts = ts,
                                     !.preview = PreviewOf(handshake.fav_id)]
              ELSE [handshake EXCEPT !.polls = polls, !.new_ts = ts]
    /\ UNCHANGED notHandshake

\* A telemetry message of a connected worker, while the handshake runs.
HsTelemetry ==
    /\ handshake.pc # "done"
    /\ PvTelemetry
    /\ pvLast'.slave \in Range(connected_slaves)

\* A preview_data message of a connected worker.
HsPreviewData ==
    /\ handshake.pc # "done"
    /\ PvPreviewData
    /\ pvLast'.slave \in Range(connected_slaves)

\* disconnect_slave: the worker's record goes, with its telemetry and its
\* preview timestamp (cleanup_disconnected_slave); if it was the favorite
\* the first worker left becomes the favorite.  The flag of a worker that
\* is gone reads FALSE here.
HsDisconnect ==
    \E w \in PreviewSlaves :
        /\ handshake.pc # "done"
        /\ w \in Range(connected_slaves)
        /\ connected_slaves' = Without(connected_slaves, w)
        /\ is_favorite' =
              [s \in PreviewSlaves |->
                  IF s = w THEN FALSE
                  ELSE IF ~is_favorite[w] THEN is_favorite[s]
                  ELSE IF connected_slaves' = <<>> THEN FALSE
                  ELSE s = Head(connected_slaves')]
        /\ telemetry' = [telemetry EXCEPT ![w] = EmptyFcn]
        /\ last_preview_timestamp' =
              [s \in DOMAIN last_preview_timestamp \ {w} |->
                  last_preview_timestamp[s]]
        /\ UNCHANGED <<pvLast, favReq, favDisc, trackerVars, lockVars,
                       distVars, roundVars, sessVars, patVars, connVars,
                       stepVars>>

NextHandshake ==
    \/ HsStart
    \/ HsPoll
    \/ HsTelemetry
    \/ HsPreviewData
    \/ HsDisconnect

\* asyncio.sleep(0.25) returns and the event loop resumes the coroutine.
HandshakeFairness == WF_vars(HsPoll)

SpecHandshake ==
    InitHandshake /\ [][NextHandshake]_vars /\ HandshakeFairness

\* What holds of the polls made so far and of the preview taken.
HandshakeInv ==
    /\ handshake.polls <= MaxPreviewPolls
    /\ (handshake.pc = "poll" /\ handshake.polls > 0)
          => handshake.new_ts <= handshake.old_ts
    /\ (handshake.pc = "done" /\ handshake.fav_id # "")
          => /\ handshake.polls >= 1
             /\ handshake.polls < MaxPreviewPolls
                   => handshake.new_ts > handshake.old_ts
    /\ handshake.pc = "done" => handshake.preview = PreviewOf(handshake.fav_id)

(***************************************************************************)
(* C39.  The preview handshake polls at most 20 times (MaxPreviewPolls     *)
(* here), stops at the first poll that observes                            *)
(* last_preview_timestamp[favorite] > old_ts, and in every case, also with *)
(* no response or with the favorite disconnecting during the wait, it ends *)
(* and the iteration goes on with whatever preview is stored.              *)
(***************************************************************************)
C39_HandshakeEnds ==
    /\ []HandshakeInv
    /\ (handshake.pc = "poll") ~> (handshake.pc = "done")

\* The favorite disconnected during the wait: the handshake made all its
\* polls and went on with an empty preview.
C39_Witness ==
    /\ handshake.pc = "done"
    /\ handshake.fav_id # ""
    /\ handshake.fav_id \notin Range(connected_slaves)
    /\ handshake.polls = MaxPreviewPolls
    /\ handshake.preview = EmptyPreview

(***************************************************************************)
(* SpecPause: pause_session beside the calls and the loop tasks of         *)
(* SpecLoop.  pauseLog counts the calls that found their session and keeps *)
(* of the last one the id, the status it wrote to the session's row and    *)
(* whether a paintBatch had been sent before it.                           *)
(***************************************************************************)
MaxPauses == 1

\* control{action: pause} to every connected worker of the session.
NoPauseMsgs(id) == {}

PauseMsgs(id) ==
    {Msg(s, "control/pause") : s \in Range(ValidSlaves(id))}

\* s.status = 'paused'
PausedStatus == "paused"

\* pause_session: 404 for an unknown session, else the sends and the write
\* of the status.
PauseSession(id) ==
    /\ pauseLog.count < MaxPauses
    /\ IF id \notin active_sessions
       THEN UNCHANGED <<sessSent, pauseLog>>
       ELSE /\ sessSent' = sessSent \cup PauseMsgs(id)
            /\ pauseLog' = [count |-> pauseLog.count + 1,
                            id |-> id,
                            status |-> PausedStatus,
                            before |-> Msg("a", "paintBatch") \in sessSent]
    /\ UNCHANGED <<active_protect_loops, loopTasks, sessLast, trackerVars,
                   lockVars, distVars, favVars, roundVars, patVars,
                   previewVars, connVars, callVars, handshake>>

NextPause ==
    \/ NextLoop
    \/ \E id \in SessionIds : PauseSession(id)

SpecPause == InitSession /\ [][NextPause]_vars

\* The steps that are a pause_session call on a known session.
PauseStep == pauseLog'.count = pauseLog.count + 1

(***************************************************************************)
(* C40.  pause_session leaves the session's running flag, the batch        *)
(* tracker and the lockout unchanged: it only sends control{action:pause}  *)
(* to the session's connected workers (and sets the persisted status to    *)
(* paused), so a running orchestration loop keeps planning and             *)
(* dispatching: its tasks stand where they stood and the loop condition    *)
(* reads the same.                                                         *)
(***************************************************************************)
C40_PauseFrame ==
    [][PauseStep =>
          /\ active_protect_loops' = active_protect_loops
          /\ batches' = batches
          /\ recently_repaired' = recently_repaired
          /\ loopTasks' = loopTasks
          /\ \A id \in SessionIds : LoopContinues(id)' = LoopContinues(id)
          /\ sessSent' \ sessSent \subseteq
                {Msg(s, "control/pause") : s \in SessConnected}
          /\ \A s \in Range(SessionSlaveIds(pauseLog'.id)) :
                s \in SessConnected => Msg(s, "control/pause") \in sessSent'
          /\ pauseLog'.status = "paused"]_vars

\* The running session was paused before any paintBatch was sent, its flag
\* is still set and a loop task has dispatched a tile since.
C40_Witness ==
    /\ pauseLog.count > 0
    /\ pauseLog.id = LoopSession
    /\ ~pauseLog.before
    /\ LoopContinues(LoopSession)
    /\ Msg("a", "paintBatch") \in sessSent
    /\ Msg("a", "control/pause") \in sessSent

====
